---- MODULE Spec2Model ----
(***************************************************************************)
(* A model of the renderscreenshot Go client: the typed API error and its  *)
(* retry verdict (errors.go), the retrying HTTP transport (http.go), the   *)
(* URL signer (Client.GenerateURL) and the webhook verifier (webhook.go).  *)
(*                                                                         *)
(* Go strings whose bytes matter (header values, timestamps, map keys,     *)
(* query values, signatures) are sequences of one-character strings.       *)
(* Durations and delays are whole ticks, TicksPerSecond ticks to a second. *)
(***************************************************************************)
EXTENDS Integers, Sequences, FiniteSets, TLC

VARIABLES client, calls, op, args, out

vars == <<client, calls, op, args, out>>

(***************************************************************************)
(* Bounds of the model.                                                    *)
(***************************************************************************)
\* Largest max_retries a client is configured with (the smallest is -1).
MaxRetries == 2
\* Latest time.Now().Unix() at which a webhook is verified (the earliest is 0).
MaxNow == 2
\* Length of a hex-encoded digest, in characters.
HexLen == 2
\* Resolution of time: ticks to one second.
TicksPerSecond == 4
\* Go's int and int64 are 64 bits wide; the model's integers are two's
\* complement integers of WordBits bits, so that their limits can be reached.
WordBits == 10

(***************************************************************************)
(* Program constants.                                                      *)
(***************************************************************************)
\* defaultRetryDelay, in seconds.
DefaultRetryDelaySeconds == 1
\* maxRetryDelay, in seconds.
MaxRetryDelaySeconds == 30
\* DefaultTolerance, in seconds.
DefaultToleranceSeconds == 300

defaultRetryDelay == DefaultRetryDelaySeconds * TicksPerSecond
maxRetryDelay == MaxRetryDelaySeconds * TicksPerSecond

(***************************************************************************)
(* Strings as sequences of characters.                                     *)
(***************************************************************************)
Digits == <<"0", "1", "2", "3", "4", "5", "6", "7", "8", "9">>

IsDigit(ch) == \E i \in 1..Len(Digits) : Digits[i] = ch

DigitVal(ch) == (CHOOSE i \in 1..Len(Digits) : Digits[i] = ch) - 1

RECURSIVE ParseUint(_, _)
\* strconv.ParseUint(s, 10, _) without its range check: the value of the
\* digits read so far is acc; a non-digit is a syntax error (-1).
ParseUint(s, acc) ==
    IF s = <<>> THEN acc
    ELSE IF ~IsDigit(Head(s)) THEN -1
    ELSE ParseUint(Tail(s), acc * 10 + DigitVal(Head(s)))

\* strconv.ParseInt(s, 10, bits) and strconv.Atoi(s): an optional sign, then
\* decimal digits only; the value must lie in [-2^(bits-1), 2^(bits-1) - 1].
ParseInt(s, bits) ==
    LET neg  == s # <<>> /\ Head(s) = "-"
        body == IF s # <<>> /\ Head(s) \in {"+", "-"} THEN Tail(s) ELSE s
        un   == IF body = <<>> THEN -1 ELSE ParseUint(body, 0)
        lim  == 2 ^ (bits - 1)
    IN  IF un < 0 THEN [ok |-> FALSE, n |-> 0]
        ELSE IF ~neg /\ un >= lim THEN [ok |-> FALSE, n |-> lim - 1]
        ELSE IF neg /\ un > lim THEN [ok |-> FALSE, n |-> -lim]
        ELSE [ok |-> TRUE, n |-> IF neg THEN -un ELSE un]

(***************************************************************************)
(* errors.go: the typed API error.                                         *)
(***************************************************************************)
CodeInvalidURL == "invalid_url"
CodeInvalidRequest == "invalid_request"
CodeMissingRequired == "missing_required"
CodeUnauthorized == "unauthorized"
CodeInvalidAPIKey == "invalid_api_key"
CodeExpiredSig == "expired_signature"
CodeForbidden == "forbidden"
CodeNoCredits == "insufficient_credits"
CodeNotFound == "not_found"
CodeRateLimited == "rate_limited"
CodeTimeout == "timeout"
CodeRenderFailed == "render_failed"
CodeInternalError == "internal_error"
CodeConnectionError == "connection_error"

ErrorCodes ==
    {CodeInvalidURL, CodeInvalidRequest, CodeMissingRequired, CodeUnauthorized,
     CodeInvalidAPIKey, CodeExpiredSig, CodeForbidden, CodeNoCredits,
     CodeNotFound, CodeRateLimited, CodeTimeout, CodeRenderFailed,
     CodeInternalError, CodeConnectionError}

\* The nil error / nil pointer.
Nil == [nil |-> TRUE]

\* A *Error value; fields a composite literal leaves out are Go's zero values.
Error(message, httpStatus, code, requestID, retryAfter) ==
    [Message |-> message, HTTPStatus |-> httpStatus, Code |-> code,
     RequestID |-> requestID, RetryAfter |-> retryAfter]

\* err.(*Error) succeeds.
IsTypedError(err) == "Code" \in DOMAIN err

\* The retry verdict of Error.IsRetryable with the 5xx test left out.
ErrorIsRetryableCodesOnly(e) ==
    e.Code \in {CodeRateLimited, CodeTimeout, CodeRenderFailed,
                CodeInternalError, CodeConnectionError}

\* The retry verdict with the client-error statuses 400, 401, 403 and 404
\* tested first: such a response is never retryable, whatever its code.
ErrorIsRetryableStatusFirst(e) ==
    /\ e.HTTPStatus \notin {400, 401, 403, 404}
    /\ \/ e.Code \in {CodeRateLimited, CodeTimeout, CodeRenderFailed,
                      CodeInternalError, CodeConnectionError}
       \/ (e.HTTPStatus >= 500 /\ e.HTTPStatus < 600)

\* (*Error).IsRetryable
ErrorIsRetryable(e) ==
    \/ e.Code \in {CodeRateLimited, CodeTimeout, CodeRenderFailed,
                   CodeInternalError, CodeConnectionError}
    \/ (e.HTTPStatus >= 500 /\ e.HTTPStatus < 600)

\* IsRetryable(err error)
IsRetryable(err) ==
    IF ~IsTypedError(err) THEN FALSE ELSE ErrorIsRetryable(err)

\* IsNotFound(err error)
IsNotFound(err) ==
    IF ~IsTypedError(err) THEN FALSE
    ELSE err.HTTPStatus = 404 \/ err.Code = CodeNotFound

(***************************************************************************)
(* JSON values: [t |-> "str", v |-> s], [t |-> "num", v |-> n] and         *)
(* [t |-> "obj", v |-> m], m a function from its keys to JSON values.      *)
(***************************************************************************)
JStr(s) == [t |-> "str", v |-> s]
JNum(n) == [t |-> "num", v |-> n]
JObj(m) == [t |-> "obj", v |-> m]
EmptyMap == [k \in {} |-> Nil]

\* m[k].(string) succeeds.
HasString(m, k) == k \in DOMAIN m /\ m[k].t = "str"

\* The inference with the case for 422 left out.
InferCodeNo422(httpStatus) ==
    CASE httpStatus = 400 -> CodeInvalidRequest
      [] httpStatus = 401 -> CodeUnauthorized
      [] httpStatus = 403 -> CodeForbidden
      [] httpStatus = 404 -> CodeNotFound
      [] httpStatus = 408 -> CodeTimeout
      [] httpStatus = 429 -> CodeRateLimited
      [] httpStatus >= 500 -> CodeInternalError
      [] OTHER -> ""

\* The code inferred from the HTTP status when the body names none.
InferCode(httpStatus) ==
    CASE httpStatus = 400 -> CodeInvalidRequest
      [] httpStatus = 401 -> CodeUnauthorized
      [] httpStatus = 403 -> CodeForbidden
      [] httpStatus = 404 -> CodeNotFound
      [] httpStatus = 408 -> CodeTimeout
      [] httpStatus = 422 -> CodeInvalidRequest
      [] httpStatus = 429 -> CodeRateLimited
      [] httpStatus >= 500 -> CodeInternalError
      [] OTHER -> ""

\* errorFromResponse taking error.request_id whether or not the header gave
\* a request id.
errorFromResponseBodyFirst(httpStatus, body, retryAfter, requestID) ==
    LET hasErrMap == "error" \in DOMAIN body /\ body["error"].t = "obj"
        errMap == IF hasErrMap THEN body["error"].v ELSE EmptyMap
        message == IF HasString(errMap, "message") THEN <<errMap["message"].v>>
                   ELSE <<"HTTP %d error", httpStatus>>
        code0 == IF HasString(errMap, "code") THEN errMap["code"].v ELSE ""
        rid1 == IF HasString(errMap, "request_id")
                THEN errMap["request_id"].v ELSE requestID
        rid2 == IF rid1 = "" /\ HasString(body, "request_id")
                THEN body["request_id"].v ELSE rid1
        code == IF code0 = "" THEN InferCode(httpStatus) ELSE code0
    IN  Error(message, httpStatus, code, rid2, retryAfter)

\* errorFromResponse(httpStatus, body, retryAfter, requestID)
errorFromResponse(httpStatus, body, retryAfter, requestID) ==
    LET hasErrMap == "error" \in DOMAIN body /\ body["error"].t = "obj"
        errMap == IF hasErrMap THEN body["error"].v ELSE EmptyMap
        message == IF HasString(errMap, "message") THEN <<errMap["message"].v>>
                   ELSE <<"HTTP %d error", httpStatus>>
        code0 == IF HasString(errMap, "code") THEN errMap["code"].v ELSE ""
        rid1 == IF HasString(errMap, "request_id") /\ requestID = ""
                THEN errMap["request_id"].v ELSE requestID
        rid2 == IF rid1 = "" /\ HasString(body, "request_id")
                THEN body["request_id"].v ELSE rid1
        code == IF code0 = "" THEN InferCode(httpStatus) ELSE code0
    IN  Error(message, httpStatus, code, rid2, retryAfter)

(***************************************************************************)
(* http.go: the transport.                                                 *)
(***************************************************************************)
\* defaultBaseURL
defaultBaseURL == <<"https://api.renderscreenshot.com">>

\* defaultTimeout, in ticks.
defaultTimeout == 30 * TicksPerSecond

RECURSIVE TrimRightSlash(_)
\* strings.TrimRight(s, "/")
TrimRightSlash(s) ==
    IF s # <<>> /\ s[Len(s)] = "/" THEN TrimRightSlash(SubSeq(s, 1, Len(s) - 1))
    ELSE s

\* newHTTPClient giving maxRetries a default of 3 when it is 0, the way it
\* does for the other fields.
newHTTPClientRetriesByDefault(apiKey, baseURL, timeout, maxRetries, retryDelay) ==
    [apiKey     |-> apiKey,
     baseURL    |-> TrimRightSlash(IF baseURL = <<>> THEN defaultBaseURL ELSE baseURL),
     timeout    |-> IF timeout = 0 THEN defaultTimeout ELSE timeout,
     maxRetries |-> IF maxRetries = 0 THEN 3 ELSE maxRetries,
     retryDelay |-> IF retryDelay = 0 THEN defaultRetryDelay ELSE retryDelay]

\* newHTTPClient(apiKey, baseURL, timeout, maxRetries, retryDelay)
newHTTPClient(apiKey, baseURL, timeout, maxRetries, retryDelay) ==
    [apiKey     |-> apiKey,
     baseURL    |-> TrimRightSlash(IF baseURL = <<>> THEN defaultBaseURL ELSE baseURL),
     timeout    |-> IF timeout = 0 THEN defaultTimeout ELSE timeout,
     maxRetries |-> maxRetries,
     retryDelay |-> IF retryDelay = 0 THEN defaultRetryDelay ELSE retryDelay]

\* The zero clientConfig, before any Option is applied.
ZeroConfig ==
    [baseURL |-> <<>>, timeout |-> 0, signingKey |-> <<>>, publicKeyID |-> <<>>,
     maxRetries |-> 0, retryDelay |-> 0]

\* New(apiKey, opts...): (client, err); cfg is the clientConfig after the
\* options were applied. An empty apiKey gives no client and an error.
New(apiKey, cfg) ==
    IF apiKey = ""
    THEN [client |-> Nil,
          err    |-> Error(<<"Invalid or missing API key">>, 401, CodeUnauthorized, "", 0)]
    ELSE [client |-> [http        |-> newHTTPClient(apiKey, cfg.baseURL, cfg.timeout,
                                                    cfg.maxRetries, cfg.retryDelay),
                      signingKey  |-> cfg.signingKey,
                      publicKeyID |-> cfg.publicKeyID,
                      cache       |-> Nil],
          err    |-> Nil]

\* parseRetryAfter(value)
parseRetryAfter(value) ==
    IF value = <<>> THEN 0
    ELSE LET r == ParseInt(value, WordBits)
         IN  IF ~r.ok THEN 0 ELSE r.n

\* strings.Contains(err.Error(), w), the error text being a sequence of words.
Contains(text, w) == \E i \in 1..Len(text) : text[i] = w

\* isTimeoutError(err)
isTimeoutError(err) ==
    IF err = Nil THEN FALSE
    ELSE Contains(err.text, "timeout") \/ Contains(err.text, "deadline exceeded")

\* json.Unmarshal(respBody, &bodyMap): a JSON object fills the map, the JSON
\* null leaves it nil (which reads as the empty map) without an error, and
\* anything else is an error.
jsonUnmarshalMap(respBody) ==
    IF respBody.kind = "object" THEN [ok |-> TRUE, v |-> respBody.v]
    ELSE IF respBody.kind = "null" THEN [ok |-> TRUE, v |-> EmptyMap]
    ELSE [ok |-> FALSE, v |-> EmptyMap]

\* The result triple (respBody, respHeaders, err) of doRequest.
Result(body, headers, err) == [body |-> body, headers |-> headers, err |-> err]

\* doRequest up to c.client.Do: the request body is serialized and the
\* request is built; Nil when both succeed.
doRequestBuild(req) ==
    IF req.body = "unmarshalable"
    THEN Error(<<"failed to marshal request body">>, 0, CodeInvalidRequest, "", 0)
    ELSE IF ~req.urlOK
    THEN Error(<<"failed to create request: ", "parse error">>, 0,
               CodeConnectionError, "", 0)
    ELSE Nil

\* doRequest from the return of c.client.Do: o is what the network gave.
doRequestFinish(o) ==
    IF o.kind = "neterr"
    THEN IF isTimeoutError(o)
         THEN Result(Nil, Nil, Error(<<"Request timed out">>, 408, CodeTimeout, "", 0))
         ELSE Result(Nil, Nil,
                     Error(<<"Failed to connect to server: ", o.text>>, 0,
                           CodeConnectionError, "", 0))
    ELSE IF o.kind = "readerr"
    THEN Result(Nil, Nil,
                Error(<<"failed to read response body: ", "unexpected EOF">>, 0,
                      CodeConnectionError, "", 0))
    ELSE IF o.status >= 400
    THEN Result(Nil, Nil,
                errorFromResponse(o.status, jsonUnmarshalMap(o.body).v,
                                  parseRetryAfter(o.retryAfter), o.requestID))
    ELSE Result(o.body, [retryAfter |-> o.retryAfter, requestID |-> o.requestID], Nil)

\* The values rand.Float64() * retryDelay * 0.5 can take, in ticks: the
\* half-open interval from 0 to half the base delay.
Jitters(retryDelay) ==
    IF retryDelay >= 0 THEN {j \in 0..retryDelay : 2 * j < retryDelay} \cup {0}
    ELSE {j \in retryDelay..0 : 2 * j > retryDelay}

\* calculateDelay with the ceiling applied to the server's retry_after too.
calculateDelayCapped(c, err, attempt, jitter) ==
    LET delay == IF err.RetryAfter > 0 THEN err.RetryAfter * TicksPerSecond
                 ELSE c.retryDelay * (2 ^ attempt) + jitter
    IN  IF delay > maxRetryDelay THEN maxRetryDelay ELSE delay

\* calculateDelay with the comparison against maxRetryDelay left out.
calculateDelayNoCeiling(c, err, attempt, jitter) ==
    IF err.RetryAfter > 0 THEN err.RetryAfter * TicksPerSecond
    ELSE c.retryDelay * (2 ^ attempt) + jitter

\* calculateDelay with the ceiling applied to the exponential part before
\* the jitter is added.
calculateDelayCeilingBeforeJitter(c, err, attempt, jitter) ==
    IF err.RetryAfter > 0 THEN err.RetryAfter * TicksPerSecond
    ELSE LET calculated == c.retryDelay * (2 ^ attempt)
             capped == IF calculated > maxRetryDelay THEN maxRetryDelay ELSE calculated
         IN  capped + jitter

\* (c *httpClient).calculateDelay(err, attempt), in ticks; jitter is the draw
\* of the random source.
calculateDelay(c, err, attempt, jitter) ==
    IF err.RetryAfter > 0 THEN err.RetryAfter * TicksPerSecond
    ELSE LET calculated == c.retryDelay * (2 ^ attempt)
             delay == calculated + jitter
         IN  IF delay > maxRetryDelay THEN maxRetryDelay ELSE delay

(***************************************************************************)
(* One logical call is a frame of doWithRetry: its request, its locals     *)
(* attempt and lastErr, where it stands (pc), and, for the properties,     *)
(* what it has seen: outcomes (what the network gave to each request it    *)
(* sent), attempts (the runs of doRequest), slept (the delays it slept)    *)
(* and ret (what it returned).                                             *)
(***************************************************************************)
IdleFrame ==
    [pc |-> "idle", req |-> Nil, attempt |-> 0, lastErr |-> Nil,
     attempts |-> 0, outcomes |-> <<>>, delay |-> 0, slept |-> <<>>,
     ret |-> Nil]

\* What the server and the network may answer to one request.
HttpOutcome(status, retryAfter, requestID, body) ==
    [kind |-> "http", status |-> status, retryAfter |-> retryAfter,
     requestID |-> requestID, body |-> body]

NetErrOutcome(text) == [kind |-> "neterr", text |-> text]

EmptyBody == [kind |-> "empty"]
NullBody == [kind |-> "null"]
TextBody(raw) == [kind |-> "text", raw |-> raw]
ObjectBody(m) == [kind |-> "object", v |-> m]

ErrorBody(code) ==
    ObjectBody([k \in {"error"} |->
        JObj([f \in {"message", "code"} |->
            IF f = "code" THEN JStr(code) ELSE JStr("failure")])])

Outcomes ==
    { HttpOutcome(200, <<>>, "", ObjectBody([k \in {"status"} |-> JStr("ok")])),
      HttpOutcome(401, <<>>, "", ErrorBody(CodeUnauthorized)),
      HttpOutcome(429, <<"6", "0">>, "req_1", EmptyBody),
      HttpOutcome(500, <<>>, "", ErrorBody(CodeInternalError)),
      HttpOutcome(503, <<"2">>, "", TextBody("<html>")),
      NetErrOutcome(<<"context", "deadline exceeded">>),
      NetErrOutcome(<<"dial tcp", "connection refused">>) }

\* The requests a caller may make: with or without a body, a body that
\* json.Marshal rejects, a URL that http.NewRequest rejects.
Requests ==
    { [body |-> "nil", urlOK |-> TRUE], [body |-> "ok", urlOK |-> TRUE],
      [body |-> "unmarshalable", urlOK |-> TRUE], [body |-> "nil", urlOK |-> FALSE] }

\* The base delays WithRetryDelay is given, in ticks (0: the default).
RetryDelayOptions == {0, 1, 8 * TicksPerSecond}

\* doWithRetry's handling of an attempt, returning the first error seen
\* instead of the last.
AfterAttemptReturnFirst(c, f, res, jitter) ==
    LET lastErr == IF f.lastErr = Nil THEN res.err ELSE f.lastErr
    IN  IF res.err = Nil
        THEN [f EXCEPT !.pc = "done", !.ret = Result(res.body, res.headers, Nil)]
        ELSE IF ~IsTypedError(res.err) \/ ~ErrorIsRetryable(res.err)
                \/ f.attempt >= c.maxRetries
        THEN [f EXCEPT !.pc = "done", !.lastErr = lastErr,
                       !.ret = Result(Nil, Nil, lastErr)]
        ELSE [f EXCEPT !.pc = "sleep", !.lastErr = lastErr,
                       !.delay = calculateDelay(c, res.err, f.attempt, jitter)]

\* The same with the retry verdict not consulted.
AfterAttemptRetryAll(c, f, res, jitter) ==
    IF res.err = Nil
    THEN [f EXCEPT !.pc = "done", !.ret = Result(res.body, res.headers, Nil)]
    ELSE IF f.attempt >= c.maxRetries
    THEN [f EXCEPT !.pc = "done", !.lastErr = res.err,
                   !.ret = Result(Nil, Nil, res.err)]
    ELSE [f EXCEPT !.pc = "sleep", !.lastErr = res.err,
                   !.delay = calculateDelay(c, res.err, f.attempt, jitter)]

\* The same giving up one attempt early (attempt + 1 >= maxRetries).
AfterAttemptGiveUpEarly(c, f, res, jitter) ==
    IF res.err = Nil
    THEN [f EXCEPT !.pc = "done", !.ret = Result(res.body, res.headers, Nil)]
    ELSE IF ~IsTypedError(res.err) \/ ~ErrorIsRetryable(res.err)
            \/ f.attempt + 1 >= c.maxRetries
    THEN [f EXCEPT !.pc = "done", !.lastErr = res.err,
                   !.ret = Result(Nil, Nil, res.err)]
    ELSE [f EXCEPT !.pc = "sleep", !.lastErr = res.err,
                   !.delay = calculateDelay(c, res.err, f.attempt, jitter)]

\* The same with the sleep placed before the test of the attempt index: the
\* call sleeps after its final attempt too and leaves through the loop's end.
AfterAttemptSleepFirst(c, f, res, jitter) ==
    IF res.err = Nil
    THEN [f EXCEPT !.pc = "done", !.ret = Result(res.body, res.headers, Nil)]
    ELSE IF ~IsTypedError(res.err) \/ ~ErrorIsRetryable(res.err)
    THEN [f EXCEPT !.pc = "done", !.lastErr = res.err,
                   !.ret = Result(Nil, Nil, res.err)]
    ELSE [f EXCEPT !.pc = "sleep", !.lastErr = res.err,
                   !.delay = calculateDelay(c, res.err, f.attempt, jitter)]

\* The same retrying by a call of doWithRetry from within itself, without a
\* sleep: the inner call starts again at attempt 0.
AfterAttemptRecursive(c, f, res, jitter) ==
    IF res.err = Nil
    THEN [f EXCEPT !.pc = "done", !.ret = Result(res.body, res.headers, Nil)]
    ELSE IF ~IsTypedError(res.err) \/ ~ErrorIsRetryable(res.err)
            \/ f.attempt >= c.maxRetries
    THEN [f EXCEPT !.pc = "done", !.lastErr = res.err,
                   !.ret = Result(Nil, Nil, res.err)]
    ELSE [f EXCEPT !.pc = "loop", !.attempt = 0, !.lastErr = Nil,
                   !.attempts = 0, !.outcomes = <<>>]

\* doWithRetry from the return of doRequest (res) to its own return or to the
\* sleep before the next attempt: lines 117 to 127 of the loop body.
AfterAttempt(c, f, res, jitter) ==
    IF res.err = Nil
    THEN [f EXCEPT !.pc = "done", !.ret = Result(res.body, res.headers, Nil)]
    ELSE IF ~IsTypedError(res.err) \/ ~ErrorIsRetryable(res.err)
            \/ f.attempt >= c.maxRetries
    THEN [f EXCEPT !.pc = "done", !.lastErr = res.err,
                   !.ret = Result(Nil, Nil, res.err)]
    ELSE [f EXCEPT !.pc = "sleep", !.lastErr = res.err,
                   !.delay = calculateDelay(c, res.err, f.attempt, jitter)]

\* A caller enters doWithRetry: attempt := 0, lastErr := nil.
Call(id) ==
    /\ calls[id].pc = "idle"
    /\ \E req \in Requests :
          calls' = [calls EXCEPT ![id] = [IdleFrame EXCEPT !.pc = "loop", !.req = req]]
    /\ UNCHANGED <<client, op, args, out>>

\* The loop condition holds and doRequest runs up to c.client.Do: either the
\* request goes out, or building it failed and doWithRetry handles the error.
SendRequest(id) ==
    LET f == calls[id]
        pre == doRequestBuild(f.req)
        g == [f EXCEPT !.attempts = @ + 1]
    IN  /\ f.pc = "loop"
        /\ f.attempt <= client.http.maxRetries
        /\ IF pre = Nil
           THEN calls' = [calls EXCEPT ![id] = [g EXCEPT !.pc = "inflight"]]
           ELSE \E jitter \in Jitters(client.http.retryDelay) :
                   calls' = [calls EXCEPT ![id] =
                                AfterAttempt(client.http, g, Result(Nil, Nil, pre), jitter)]
        /\ UNCHANGED <<client, op, args, out>>

\* c.client.Do returns one of outcomes; doRequest classifies what came back
\* and doWithRetry returns or goes to sleep.
ReceiveResponseOf(id, outcomes) ==
    LET f == calls[id]
    IN  /\ f.pc = "inflight"
        /\ \E o \in outcomes, jitter \in Jitters(client.http.retryDelay) :
              calls' = [calls EXCEPT ![id] =
                  AfterAttempt(client.http, [f EXCEPT !.outcomes = Append(@, o)],
                               doRequestFinish(o), jitter)]
        /\ UNCHANGED <<client, op, args, out>>

ReceiveResponse(id) == ReceiveResponseOf(id, Outcomes)

\* Wake with the attempt counter kept on the shared client instead of in the
\* call: waking one call advances the counter of every call in the loop.
WakeSharedCounter(id) ==
    LET f == calls[id]
    IN  /\ f.pc = "sleep"
        /\ calls' = [i \in DOMAIN calls |->
                        IF i = id
                        THEN [f EXCEPT !.pc = "loop", !.attempt = @ + 1,
                                       !.slept = Append(@, f.delay), !.delay = 0]
                        ELSE IF calls[i].pc \in {"loop", "inflight", "sleep"}
                        THEN [calls[i] EXCEPT !.attempt = @ + 1]
                        ELSE calls[i]]
        /\ UNCHANGED <<client, op, args, out>>

\* Wake counting the retries down on the client instead of counting the
\* attempts up in the call: c.maxRetries-- for attempt++.
WakeCountingDown(id) ==
    LET f == calls[id]
    IN  /\ f.pc = "sleep"
        /\ calls' = [calls EXCEPT ![id] =
                        [f EXCEPT !.pc = "loop",
                                  !.slept = Append(@, f.delay), !.delay = 0]]
        /\ client' = [client EXCEPT !.http.maxRetries = @ - 1]
        /\ UNCHANGED <<op, args, out>>

\* time.Sleep returns and the loop's post statement runs: attempt++.
Wake(id) ==
    LET f == calls[id]
    IN  /\ f.pc = "sleep"
        /\ calls' = [calls EXCEPT ![id] =
                        [f EXCEPT !.pc = "loop", !.attempt = @ + 1,
                                  !.slept = Append(@, f.delay), !.delay = 0]]
        /\ UNCHANGED <<client, op, args, out>>

\* The loop condition fails: return nil, nil, lastErr.
LoopExit(id) ==
    LET f == calls[id]
    IN  /\ f.pc = "loop"
        /\ f.attempt > client.http.maxRetries
        /\ calls' = [calls EXCEPT ![id] =
                        [f EXCEPT !.pc = "done", !.ret = Result(Nil, Nil, f.lastErr)]]
        /\ UNCHANGED <<client, op, args, out>>

\* The caller has its result; the frame is gone.
Return(id) ==
    /\ calls[id].pc = "done"
    /\ calls' = [calls EXCEPT ![id] = IdleFrame]
    /\ UNCHANGED <<client, op, args, out>>

\* A function is about to be applied: op names it, args are its arguments and
\* out, Pending until it returns, is [v |-> what it returned].
Pending == [pending |-> TRUE]

Returned(v) == [v |-> v]

\* The state after construction: a client from newHTTPClient and callers that
\* have not called yet; no pure function has been applied.
InitClient(ids) ==
    /\ \E mr \in -1..MaxRetries, rd \in RetryDelayOptions :
          client = New("rs_live_key",
                       [ZeroConfig EXCEPT !.maxRetries = mr, !.retryDelay = rd]).client
    /\ calls = [id \in ids |-> IdleFrame]
    /\ op = "none"
    /\ args = Nil
    /\ out = Pending

Init == InitClient({1})

Next ==
    \/ \E id \in {1} : Call(id)
    \/ \E id \in {1} : SendRequest(id)
    \/ \E id \in {1} : ReceiveResponse(id)
    \/ \E id \in {1} : Wake(id)
    \/ \E id \in {1} : LoopExit(id)
    \/ \E id \in {1} : Return(id)

Spec == Init /\ [][Next]_vars

(***************************************************************************)
(* The error predicates applied to error values.                           *)
(***************************************************************************)
HTTPStatuses == {0, 200, 400, 401, 403, 404, 408, 422, 429, 499, 500, 503, 599, 600}

\* The error values the predicates are applied to: typed errors of every
\* code (also none, and one the SDK does not name) and status, an error of
\* another type, and nil.
ErrorValues ==
    { Error(<<"failure">>, st, code, "", 0) :
          st \in HTTPStatuses, code \in ErrorCodes \cup {"", "quota_exceeded"} }
    \cup { [plain |-> "unexpected EOF"], Nil }

\* The transport at rest beside the function applied.
AtRest ==
    /\ client = New("rs_live_key", ZeroConfig).client
    /\ calls = [id \in {1} |-> IdleFrame]

InitErrors ==
    /\ AtRest
    /\ \/ op = "Error.IsRetryable" /\ args \in {x \in ErrorValues : IsTypedError(x)}
       \/ op = "IsRetryable" /\ args \in ErrorValues
    /\ out = Pending

\* e.IsRetryable() on a typed error.
CallErrorIsRetryable ==
    /\ op = "Error.IsRetryable"
    /\ out = Pending
    /\ out' = Returned(ErrorIsRetryable(args))
    /\ UNCHANGED <<client, calls, op, args>>

\* IsRetryable(err) on any error value.
CallIsRetryable ==
    /\ op = "IsRetryable"
    /\ out = Pending
    /\ out' = Returned(IsRetryable(args))
    /\ UNCHANGED <<client, calls, op, args>>

NextErrors == CallErrorIsRetryable \/ CallIsRetryable

SpecErrors == InitErrors /\ [][NextErrors]_vars

(***************************************************************************)
(* webhook.go: the webhook verifier.                                       *)
(***************************************************************************)
MinInt == -(2 ^ (WordBits - 1))
MaxInt == 2 ^ (WordBits - 1) - 1

\* The result of an int64 operation: x reduced to WordBits bits, two's
\* complement.
WrapInt(x) == ((x - MinInt) % (2 ^ WordBits)) + MinInt

\* int64(d.Seconds()) of a duration of d ticks: truncation toward zero.
Seconds(d) == IF d >= 0 THEN d \div TicksPerSecond ELSE -((-d) \div TicksPerSecond)

\* DefaultTolerance, in ticks.
DefaultTolerance == DefaultToleranceSeconds * TicksPerSecond

RECURSIVE FormatUint(_)
FormatUint(n) ==
    IF n < 10 THEN <<Digits[n + 1]>>
    ELSE Append(FormatUint(n \div 10), Digits[(n % 10) + 1])

\* fmt.Sprintf("%d", n)
Itoa(n) == IF n < 0 THEN <<"-">> \o FormatUint(-n) ELSE FormatUint(n)

\* A character of a signature: a literal character, or the i-th character of
\* the hex encoding of a digest.
Lit(ch) == [lit |-> ch]
HexChar(digest, i) == [hex |-> digest, pos |-> i]

\* hmac.New(sha256.New, key), Write(msg), Sum(nil): the digest is the pair
\* of what went in (no two inputs give the same digest).
HmacSha256(key, msg) == [key |-> key, msg |-> msg]

\* hex.EncodeToString(digest)
HexEncode(digest) == [i \in 1..HexLen |-> HexChar(digest, i)]

Sha256Prefix ==
    <<Lit("s"), Lit("h"), Lit("a"), Lit("2"), Lit("5"), Lit("6"), Lit("=")>>

\* The expected signature: "sha256=" + hex(HMAC-SHA256(secret, ts + "." + payload)).
ExpectedSignature(payload, timestamp, secret) ==
    Sha256Prefix \o HexEncode(HmacSha256(secret, timestamp \o <<".">> \o payload))

\* A comparison that leaves out the last byte.
ConstantTimeCompareShort(x, y) ==
    IF Len(x) # Len(y) THEN 0
    ELSE IF \A i \in 1..(Len(x) - 1) : x[i] = y[i] THEN 1 ELSE 0

\* subtle.ConstantTimeCompare(x, y)
ConstantTimeCompare(x, y) ==
    IF Len(x) # Len(y) THEN 0
    ELSE IF \A i \in 1..Len(x) : x[i] = y[i] THEN 1 ELSE 0

\* What a run of VerifyWebhook returned (ok) and which calls it made (steps).
Verdict(ok, steps) == [ok |-> ok, steps |-> steps]

\* VerifyWebhook without the test for empty arguments.
VerifyWebhookNoEmptyTest(payload, signature, timestamp, secret, tolerance, now) ==
    LET tol == IF tolerance = 0 THEN DefaultTolerance ELSE tolerance
        r == ParseInt(timestamp, WordBits)
        age0 == WrapInt(now - r.n)
        age == IF age0 < 0 THEN WrapInt(-age0) ELSE age0
    IN  IF ~r.ok THEN Verdict(FALSE, <<"ParseInt">>)
        ELSE IF age > Seconds(tol) THEN Verdict(FALSE, <<"ParseInt">>)
        ELSE Verdict(ConstantTimeCompare(
                         ExpectedSignature(payload, timestamp, secret), signature) = 1,
                     <<"ParseInt", "hmac", "ConstantTimeCompare">>)

\* VerifyWebhook(payload, signature, timestamp, secret, tolerance) run when
\* time.Now().Unix() is now.
VerifyWebhookRun(payload, signature, timestamp, secret, tolerance, now) ==
    IF payload = <<>> \/ signature = <<>> \/ timestamp = <<>> \/ secret = <<>>
    THEN Verdict(FALSE, <<>>)
    ELSE LET tol == IF tolerance = 0 THEN DefaultTolerance ELSE tolerance
             r == ParseInt(timestamp, WordBits)
             age0 == WrapInt(now - r.n)
             age == IF age0 < 0 THEN WrapInt(-age0) ELSE age0
         IN  IF ~r.ok THEN Verdict(FALSE, <<"ParseInt">>)
             ELSE IF age > Seconds(tol) THEN Verdict(FALSE, <<"ParseInt">>)
             ELSE Verdict(ConstantTimeCompare(
                              ExpectedSignature(payload, timestamp, secret),
                              signature) = 1,
                          <<"ParseInt", "hmac", "ConstantTimeCompare">>)

\* The inputs of the verifier.
Payloads == { <<>>, <<"{", "}">>, <<"x">> }

Secrets == { <<>>, <<"k", "1">>, <<"k", "2">> }

Nows == 0..MaxNow

\* Tolerances, in ticks: none given, below a second, whole seconds, seconds
\* and a fraction, negative.
Tolerances ==
    {0, 1, TicksPerSecond, 2 * TicksPerSecond + 1, 3 * TicksPerSecond,
     -TicksPerSecond}

\* Timestamps: the integers around the verification times, around the
\* default tolerance and at the limits of int64; and strings ParseInt rejects
\* or accepts with a sign.
TimestampValues ==
    (MinInt..(MinInt + MaxNow + 1))
    \cup (-5..(MaxNow + 5))
    \cup { n + d : n \in Nows,
                   d \in {-DefaultToleranceSeconds - 1, -DefaultToleranceSeconds,
                          DefaultToleranceSeconds, DefaultToleranceSeconds + 1} }
    \cup {MaxInt - 1, MaxInt}

Timestamps ==
    { Itoa(n) : n \in TimestampValues }
    \cup { <<>>, <<"x">>, <<"1", "x">>, <<"+", "1">>, <<"-">>, <<"1", ".", "5">>,
           Itoa(MaxInt + 1), Itoa(MinInt - 1) }

\* The signatures a sender may supply for a delivery: none, the signature of
\* any payload under any secret for this timestamp, the signature of another
\* timestamp, and the right signature with one character changed, dropped
\* or added, or without its prefix.
Signatures(payload, timestamp, secret) ==
    LET good == ExpectedSignature(payload, timestamp, secret)
    IN  { <<>> }
        \cup { ExpectedSignature(p, timestamp, k) : p \in Payloads, k \in Secrets }
        \cup { ExpectedSignature(payload, <<"0">>, secret) }
        \cup { [good EXCEPT ![i] = Lit("0")] : i \in 1..Len(good) }
        \cup { SubSeq(good, 1, Len(good) - 1), Append(good, Lit("0")),
               SubSeq(good, Len(Sha256Prefix) + 1, Len(good)) }

InitWebhook ==
    /\ AtRest
    /\ op = "VerifyWebhook"
    /\ \E payload \in Payloads, timestamp \in Timestamps, secret \in Secrets,
          tolerance \in Tolerances, now \in Nows :
          \E signature \in Signatures(payload, timestamp, secret) :
              args = [payload |-> payload, signature |-> signature,
                      timestamp |-> timestamp, secret |-> secret,
                      tolerance |-> tolerance, now |-> now]
    /\ out = Pending

\* A delivery is verified.
CallVerifyWebhook ==
    /\ op = "VerifyWebhook"
    /\ out = Pending
    /\ out' = Returned(VerifyWebhookRun(args.payload, args.signature, args.timestamp,
                                        args.secret, args.tolerance, args.now))
    /\ UNCHANGED <<client, calls, op, args>>

NextWebhook == CallVerifyWebhook

SpecWebhook == InitWebhook /\ [][NextWebhook]_vars

(***************************************************************************)
(* Client.GenerateURL: the URL signer.                                     *)
(***************************************************************************)
\* The bytes of the parameter names, in ascending byte order ('_' is 0x5F,
\* below the lower-case letters).
KeyBytes ==
    <<"_", "a", "b", "c", "d", "e", "f", "g", "h", "i", "j", "k", "l", "m",
      "n", "o", "p", "q", "r", "s", "t", "u", "v", "w", "x", "y", "z">>

ByteOf(ch) == CHOOSE i \in 1..Len(KeyBytes) : KeyBytes[i] = ch

RECURSIVE StringLess(_, _)
\* a < b for Go strings: byte-wise lexicographic order.
StringLess(a, b) ==
    IF b = <<>> THEN FALSE
    ELSE IF a = <<>> THEN TRUE
    ELSE IF Head(a) # Head(b) THEN ByteOf(Head(a)) < ByteOf(Head(b))
    ELSE StringLess(Tail(a), Tail(b))

RECURSIVE InsertSorted(_, _)
InsertSorted(sorted, k) ==
    IF sorted = <<>> THEN <<k>>
    ELSE IF StringLess(k, Head(sorted)) THEN <<k>> \o sorted
    ELSE <<Head(sorted)>> \o InsertSorted(Tail(sorted), k)

RECURSIVE SortStringsFrom(_, _)
SortStringsFrom(keys, sorted) ==
    IF keys = <<>> THEN sorted
    ELSE SortStringsFrom(Tail(keys), InsertSorted(sorted, Head(keys)))

\* The keys left in the order the map iteration gave them.
SortStringsSkipped(keys) == keys

\* sort.Strings(keys)
SortStrings(keys) == SortStringsFrom(keys, <<>>)

\* The characters url.QueryEscape leaves as they are.
Unreserved ==
    { KeyBytes[i] : i \in 1..Len(KeyBytes) }
    \cup { Digits[i] : i \in 1..Len(Digits) }
    \cup {"A", "B", "C", "D", "E", "F", "-", ".", "~"}

\* The percent-encodings of the other characters of the model's values.
PercentEncoding(ch) ==
    CASE ch = "%" -> <<"%", "2", "5">>
      [] ch = "&" -> <<"%", "2", "6">>
      [] ch = "+" -> <<"%", "2", "B">>
      [] ch = "/" -> <<"%", "2", "F">>
      [] ch = ":" -> <<"%", "3", "A">>
      [] ch = "=" -> <<"%", "3", "D">>
      [] ch = "?" -> <<"%", "3", "F">>

RECURSIVE QueryEscape(_)
\* url.QueryEscape(v)
QueryEscape(v) ==
    IF v = <<>> THEN <<>>
    ELSE (IF Head(v) \in Unreserved THEN <<Head(v)>>
          ELSE IF Head(v) = " " THEN <<"+">>
          ELSE PercentEncoding(Head(v))) \o QueryEscape(Tail(v))

RECURSIVE TrimRightZeros(_)
\* The digits of a mantissa without the zeros at its end.
TrimRightZeros(ds) ==
    IF Len(ds) > 1 /\ ds[Len(ds)] = "0" THEN TrimRightZeros(SubSeq(ds, 1, Len(ds) - 1))
    ELSE ds

\* fmt.Sprintf("%g", f) for a whole f that a float64 holds exactly: the
\* decimal digits when the decimal exponent is below 6, otherwise the
\* exponent form d[.ddd]e+XX with the shortest mantissa and an exponent of
\* at least two digits.
SprintfG(f) ==
    LET ds == FormatUint(IF f < 0 THEN -f ELSE f)
        exp == Len(ds) - 1
        mant == TrimRightZeros(ds)
        sign == IF f < 0 THEN <<"-">> ELSE <<>>
    IN  IF exp < 6 THEN Itoa(f)
        ELSE sign \o <<mant[1]>>
             \o (IF Len(mant) > 1 THEN <<".">> \o SubSeq(mant, 2, Len(mant)) ELSE <<>>)
             \o <<"e", "+">>
             \o (IF exp < 10 THEN <<"0">> ELSE <<>>) \o FormatUint(exp)

\* formatFloat(f) for a whole f: ".0" is added when "%g" printed no ".".
formatFloat(f) ==
    LET s == SprintfG(f)
    IN  IF \E i \in 1..Len(s) : s[i] = "." THEN s ELSE s \o <<".", "0">>

\* The names of the signed parameters.
KeyURL == <<"u", "r", "l">>
KeyHTML == <<"h", "t", "m", "l">>
KeyPreset == <<"p", "r", "e", "s", "e", "t">>
KeyWidth == <<"w", "i", "d", "t", "h">>
KeyHeight == <<"h", "e", "i", "g", "h", "t">>
KeyDevice == <<"d", "e", "v", "i", "c", "e">>
KeyScale == <<"s", "c", "a", "l", "e">>
KeyFullPage == <<"f", "u", "l", "l", "_", "p", "a", "g", "e">>
KeySelector == <<"s", "e", "l", "e", "c", "t", "o", "r">>
KeyFormat == <<"f", "o", "r", "m", "a", "t">>
KeyQuality == <<"q", "u", "a", "l", "i", "t", "y">>
KeyMobile == <<"m", "o", "b", "i", "l", "e">>
KeyWaitFor == <<"w", "a", "i", "t", "_", "f", "o", "r">>
KeyDelay == <<"d", "e", "l", "a", "y">>
KeyBlockAds == <<"b", "l", "o", "c", "k", "_", "a", "d", "s">>
KeyBlockTrackers ==
    <<"b", "l", "o", "c", "k", "_", "t", "r", "a", "c", "k", "e", "r", "s">>
KeyDarkMode == <<"d", "a", "r", "k", "_", "m", "o", "d", "e">>
KeyCacheTTL == <<"c", "a", "c", "h", "e", "_", "t", "t", "l">>
KeyExpires == <<"e", "x", "p", "i", "r", "e", "s">>
KeyKeyID == <<"k", "e", "y", "_", "i", "d">>

True == <<"t", "r", "u", "e">>

\* The TakeOptions fields toFlatMap reads, at their zero values; a *bool is
\* "nil", "true" or "false".
ZeroOptions ==
    [url |-> <<>>, html |-> <<>>, preset |-> <<>>, width |-> 0, height |-> 0,
     device |-> <<>>, scale |-> 0, fullPage |-> "nil", element |-> <<>>,
     format |-> <<>>, quality |-> 0, mobile |-> "nil", waitFor |-> <<>>,
     delay |-> 0, blockAds |-> "nil", blockTrackers |-> "nil",
     darkMode |-> "nil", cacheTTL |-> 0]

\* (o *TakeOptions).toFlatMap(): the map as the set of its key/value pairs.
toFlatMapPairs(o) ==
    (IF o.url # <<>> THEN {<<KeyURL, o.url>>} ELSE {})
    \cup (IF o.html # <<>> THEN {<<KeyHTML, o.html>>} ELSE {})
    \cup (IF o.preset # <<>> THEN {<<KeyPreset, o.preset>>} ELSE {})
    \cup (IF o.width # 0 THEN {<<KeyWidth, Itoa(o.width)>>} ELSE {})
    \cup (IF o.height # 0 THEN {<<KeyHeight, Itoa(o.height)>>} ELSE {})
    \cup (IF o.device # <<>> THEN {<<KeyDevice, o.device>>} ELSE {})
    \cup (IF o.scale # 0 THEN {<<KeyScale, formatFloat(o.scale)>>} ELSE {})
    \cup (IF o.fullPage = "true" THEN {<<KeyFullPage, True>>} ELSE {})
    \cup (IF o.element # <<>> THEN {<<KeySelector, o.element>>} ELSE {})
    \cup (IF o.format # <<>> THEN {<<KeyFormat, o.format>>} ELSE {})
    \cup (IF o.quality # 0 THEN {<<KeyQuality, Itoa(o.quality)>>} ELSE {})
    \cup (IF o.mobile = "true" THEN {<<KeyMobile, True>>} ELSE {})
    \cup (IF o.waitFor # <<>> THEN {<<KeyWaitFor, o.waitFor>>} ELSE {})
    \cup (IF o.delay # 0 THEN {<<KeyDelay, Itoa(o.delay)>>} ELSE {})
    \cup (IF o.blockAds = "true" THEN {<<KeyBlockAds, True>>} ELSE {})
    \cup (IF o.blockTrackers = "true" THEN {<<KeyBlockTrackers, True>>} ELSE {})
    \cup (IF o.darkMode = "true" THEN {<<KeyDarkMode, True>>} ELSE {})
    \cup (IF o.cacheTTL # 0 THEN {<<KeyCacheTTL, Itoa(o.cacheTTL)>>} ELSE {})

\* (o *TakeOptions).toFlatMap()
toFlatMap(o) ==
    [k \in {p[1] : p \in toFlatMapPairs(o)} |->
        (CHOOSE p \in toFlatMapPairs(o) : p[1] = k)[2]]

\* t.Unix() of a time of t ticks since the epoch.
Unix(t) == t \div TicksPerSecond

\* signParams: expires and key_id, then every entry of flatMap written over it.
SignParams(options, expiresAt, keyID) ==
    LET flatMap == toFlatMap(options)
    IN  [k \in {KeyExpires, KeyKeyID} \cup DOMAIN flatMap |->
            IF k \in DOMAIN flatMap THEN flatMap[k]
            ELSE IF k = KeyExpires THEN Itoa(Unix(expiresAt))
            ELSE keyID]

RECURSIVE JoinParts(_, _)
\* strings.Join(parts, "&") of the parts k + "=" + url.QueryEscape(params[k]).
JoinParts(keys, params) ==
    IF keys = <<>> THEN <<>>
    ELSE (Head(keys) \o <<"=">> \o QueryEscape(params[Head(keys)]))
         \o (IF Len(keys) > 1 THEN <<"&">> ELSE <<>>)
         \o JoinParts(Tail(keys), params)

\* The canonical query string of params, order being the order in which the
\* map iteration yields the keys.
QueryString(params, order) == JoinParts(SortStrings(order), params)

RECURSIVE IterationOrders(_)
\* The orders in which a range over a map with these keys may yield them:
\* every one.
IterationOrders(keys) ==
    IF keys = {} THEN { <<>> }
    ELSE UNION { { <<k>> \o rest : rest \in IterationOrders(keys \ {k}) } : k \in keys }

\* One of these orders.
SomeOrder(keys) == CHOOSE o \in IterationOrders(keys) : TRUE

\* What GenerateURL returns: (url, err); the URL is its text up to
\* "&signature=" and the hex signature after it.
SignedURL(text, signature) == [text |-> text, signature |-> signature]

NoURL == [text |-> <<>>, signature |-> <<>>]

\* The credentials GenerateURL signs with.
Effective(explicit, default) == IF explicit = <<>> THEN default ELSE explicit

\* GenerateURL using only the credentials passed to it.
GenerateURLNoDefaults(c, options, expiresAt, signingKey, publicKeyID, order) ==
    IF signingKey = <<>> \/ publicKeyID = <<>>
    THEN [url |-> NoURL,
          err |-> Error(<<"Signed URLs require signing_key and public_key_id">>,
                        400, CodeInvalidRequest, "", 0)]
    ELSE LET queryString ==
                 QueryString(SignParams(options, expiresAt, publicKeyID), order)
         IN  [url |-> SignedURL(c.http.baseURL \o <<"/v1/screenshot?">>
                                    \o queryString \o <<"&signature=">>,
                                HexEncode(HmacSha256(signingKey, queryString))),
              err |-> Nil]

\* (c *Client).GenerateURL(options, expiresAt, signingKey, publicKeyID); order
\* is the order in which the range over signParams yields its keys.
GenerateURL(c, options, expiresAt, signingKey, publicKeyID, order) ==
    LET secret == IF signingKey = <<>> THEN c.signingKey ELSE signingKey
        keyID == IF publicKeyID = <<>> THEN c.publicKeyID ELSE publicKeyID
    IN  IF secret = <<>> \/ keyID = <<>>
        THEN [url |-> NoURL,
              err |-> Error(<<"Signed URLs require signing_key and public_key_id">>,
                            400, CodeInvalidRequest, "", 0)]
        ELSE LET queryString ==
                     QueryString(SignParams(options, expiresAt, keyID), order)
             IN  [url |-> SignedURL(c.http.baseURL \o <<"/v1/screenshot?">>
                                        \o queryString \o <<"&signature=">>,
                                    HexEncode(HmacSha256(secret, queryString))),
                  err |-> Nil]

\* The inputs of the signer.
URLValues ==
    { <<"a", "+", "b">>, <<"a", " ", "b">>, <<"a", "%", "2", "B", "b">>,
      <<"a", "&", "x", "=", "1">> }

OptionChoices ==
    { [ZeroOptions EXCEPT !.url = u] : u \in URLValues }
    \cup { [ZeroOptions EXCEPT !.url = <<"a", "+", "b">>, !.width = w] : w \in {800, 801} }
    \cup { [ZeroOptions EXCEPT !.url = <<"a", "+", "b">>, !.fullPage = fp] :
              fp \in {"true", "false"} }
    \cup { [ZeroOptions EXCEPT !.url = <<"a", "+", "b">>, !.scale = sc] :
              sc \in {2, 1000000, 1500000} }

SigningKeys == { <<>>, <<"s", "1">>, <<"s", "2">> }

PublicKeyIDs == { <<>>, <<"p", "1">>, <<"p", "2">> }

ExpiryTimes == { 10 * TicksPerSecond, 10 * TicksPerSecond + 1, 11 * TicksPerSecond }

InitSigner ==
    /\ \E sk \in SigningKeys \ {<<"s", "2">>}, id \in PublicKeyIDs \ {<<"p", "2">>} :
          client = New("rs_live_key",
                       [ZeroConfig EXCEPT !.signingKey = sk, !.publicKeyID = id]).client
    /\ calls = [id \in {1} |-> IdleFrame]
    /\ op = "GenerateURL"
    /\ \E options \in OptionChoices, expiresAt \in ExpiryTimes,
          signingKey \in SigningKeys \ {<<"s", "1">>},
          publicKeyID \in PublicKeyIDs \ {<<"p", "1">>} :
          \E order \in IterationOrders(
                          DOMAIN SignParams(options, expiresAt, publicKeyID)) :
              args = [options |-> options, expiresAt |-> expiresAt,
                      signingKey |-> signingKey, publicKeyID |-> publicKeyID,
                      order |-> order]
    /\ out = Pending

\* A URL is signed.
CallGenerateURL ==
    /\ op = "GenerateURL"
    /\ out = Pending
    /\ out' = Returned(GenerateURL(client, args.options, args.expiresAt,
                                   args.signingKey, args.publicKeyID, args.order))
    /\ UNCHANGED <<client, calls, op, args>>

NextSigner == CallGenerateURL

SpecSigner == InitSigner /\ [][NextSigner]_vars

(***************************************************************************)
(* calculateDelay applied to an error, an attempt index and a draw of the  *)
(* random source, on clients of several base delays.                       *)
(***************************************************************************)
\* The base delays given to WithRetryDelay, in ticks: none (the default),
\* a fraction of a second, 8 s, 28 s (the ceiling lies inside the jitter of
\* attempt 0) and a negative one, which the option accepts as it is.
BaseDelays == {0, 1, 8 * TicksPerSecond, 28 * TicksPerSecond, -TicksPerSecond}

\* The attempt indexes calculateDelay is applied to.
AttemptIndexes == 0..(MaxRetries + 1)

\* The errors calculateDelay is applied to: RetryAfter absent, negative (a
\* Retry-After header "-1") and positive, below the ceiling (2 s) and above
\* it (60 s).
DelayErrors ==
    { Error(<<"failure">>, 429, CodeRateLimited, "", ra) : ra \in {0, -1, 2, 60} }

InitDelay ==
    /\ \E rd \in BaseDelays :
          client = New("rs_live_key",
                       [ZeroConfig EXCEPT !.maxRetries = MaxRetries, !.retryDelay = rd]).client
    /\ calls = [id \in {1} |-> IdleFrame]
    /\ op = "calculateDelay"
    /\ args \in [err : DelayErrors, attempt : AttemptIndexes,
                 jitter : Jitters(client.http.retryDelay)]
    /\ out = Pending

\* c.calculateDelay(err, attempt)
CallCalculateDelay ==
    /\ op = "calculateDelay"
    /\ out = Pending
    /\ out' = Returned(calculateDelay(client.http, args.err, args.attempt, args.jitter))
    /\ UNCHANGED <<client, calls, op, args>>

NextDelay == CallCalculateDelay

SpecDelay == InitDelay /\ [][NextDelay]_vars


(***************************************************************************)
(* One response through doRequest, and through requestJSON on a client     *)
(* that makes a single attempt.                                            *)
(***************************************************************************)
\* requestJSON returning an error for a body that is not a JSON object.
requestJSONStrict(ret) ==
    IF ret.err # Nil THEN [result |-> Nil, err |-> ret.err]
    ELSE IF ret.body = Nil \/ ret.body.kind = "empty"
    THEN [result |-> EmptyMap, err |-> Nil]
    ELSE IF ~jsonUnmarshalMap(ret.body).ok
    THEN [result |-> Nil, err |-> [plain |-> "invalid character"]]
    ELSE IF ret.body.kind = "null" THEN [result |-> Nil, err |-> Nil]
    ELSE [result |-> jsonUnmarshalMap(ret.body).v, err |-> Nil]

\* requestJSON from the return of doWithRetry (ret) on. The JSON null
\* unmarshals without an error and leaves result the nil map it was declared
\* as: the caller gets (nil, nil).
requestJSON(ret) ==
    IF ret.err # Nil THEN [result |-> Nil, err |-> ret.err]
    ELSE IF ret.body = Nil \/ ret.body.kind = "empty"
    THEN [result |-> EmptyMap, err |-> Nil]
    ELSE IF ~jsonUnmarshalMap(ret.body).ok
    THEN [result |-> [k \in {"body"} |-> JStr(ret.body.raw)], err |-> Nil]
    ELSE IF ret.body.kind = "null" THEN [result |-> Nil, err |-> Nil]
    ELSE [result |-> jsonUnmarshalMap(ret.body).v, err |-> Nil]

\* doWithRetry on a client with maxRetries = 0 whose one request is answered
\* by o: the first pass of the loop returns.
doWithRetrySingle(c, o) ==
    AfterAttempt(c, [IdleFrame EXCEPT !.pc = "inflight", !.attempts = 1,
                                      !.outcomes = <<o>>],
                 doRequestFinish(o), 0).ret

ResponseStatuses ==
    {200, 204, 302, 399, 400, 401, 403, 404, 408, 418, 422, 429, 499, 500, 503, 599, 600}

\* Retry-After header values: absent, integers, a negative integer, text, an
\* HTTP date.
RetryAfterHeaders ==
    { <<>>, <<"3", "0">>, <<"0">>, <<"-", "5">>, <<"a", "b", "c">>,
      <<"W", "e", "d", ",", " ", "2", "1">> }

RequestIDHeaders == {"", "req_header"}

\* A body {"error": {...}} carrying the given members.
ErrorObject(members) == ObjectBody([k \in {"error"} |-> JObj(members)])

\* Response bodies: none, not JSON, the JSON null, and objects with and
\* without error.code, error.request_id (a string or not) and request_id.
ResponseBodies ==
    { EmptyBody, TextBody("<html>"), NullBody,
      ObjectBody([k \in {"status"} |-> JStr("ok")]),
      ErrorBody(CodeRenderFailed),
      ErrorObject([k \in {"message", "request_id"} |->
                      IF k = "message" THEN JStr("failure") ELSE JStr("req_nested")]),
      ObjectBody([k \in {"request_id"} |-> JStr("req_top")]),
      ObjectBody([k \in {"error", "request_id"} |->
                      IF k = "error"
                      THEN JObj([f \in {"request_id"} |-> JStr("req_nested")])
                      ELSE JStr("req_top")]),
      ObjectBody([k \in {"error", "request_id"} |->
                      IF k = "error"
                      THEN JObj([f \in {"request_id"} |-> JNum(7)])
                      ELSE JStr("req_top")]),
      ObjectBody([k \in {"error", "request_id"} |->
                      IF k = "error" THEN JStr("failure") ELSE JStr("req_top")]),
      ObjectBody([k \in {"error", "request_id"} |->
                      IF k = "error"
                      THEN JObj([f \in {"request_id"} |-> JStr("")])
                      ELSE JStr("req_top")]),
      ObjectBody([k \in {"request_id"} |-> JNum(7)]) }

Responses ==
    { HttpOutcome(st, ra, rid, b) :
          st \in ResponseStatuses, ra \in RetryAfterHeaders,
          rid \in RequestIDHeaders, b \in ResponseBodies }

\* What the network can do to a request short of a response: the client's
\* timeout expires, a read times out, the connection is refused, the host
\* does not resolve, the TLS handshake is rejected.
NetworkCauses == {"client_timeout", "io_timeout", "refused", "no_such_host", "bad_certificate"}

\* The causes that are timeout or deadline conditions (net.Error.Timeout()).
TimeoutCauses == {"client_timeout", "io_timeout"}

\* The text of the underlying error, in words.
CauseText(cause) ==
    CASE cause = "client_timeout" -> <<"context", "deadline exceeded", "(Client.Timeout exceeded)">>
      [] cause = "io_timeout" -> <<"read tcp:", "i/o", "timeout">>
      [] cause = "refused" -> <<"dial tcp", "connect:", "connection refused">>
      [] cause = "no_such_host" -> <<"dial tcp", "lookup", "no such host">>
      [] cause = "bad_certificate" -> <<"tls:", "bad certificate">>

\* The request URLs of the public operations, in words: c.baseURL + path,
\* the path ending in the caller's preset id, batch id or cache key.
RequestURLs ==
    { <<"https://api.renderscreenshot.com", "/v1/usage">>,
      <<"https://api.renderscreenshot.com", "/v1/presets/", "og_card">>,
      <<"https://api.renderscreenshot.com", "/v1/presets/", "timeout">>,
      <<"https://api.renderscreenshot.com", "/v1/cache/", "page-", "timeout", "-banner">> }

\* The error c.client.Do returns: a *url.Error, whose text is the method, the
\* quoted URL and the text of the underlying error.
NetworkFailure(method, url, cause) ==
    [kind |-> "neterr", cause |-> cause, text |-> <<method>> \o url \o CauseText(cause)]

NetworkFailures ==
    { NetworkFailure(method, url, cause) :
          method \in {"Get", "Post"}, url \in RequestURLs, cause \in NetworkCauses }

InitResponse ==
    /\ AtRest
    /\ op \in {"doRequest", "requestJSON"}
    /\ args \in Responses \cup NetworkFailures
    /\ out = Pending

\* c.doRequest(...) when c.client.Do returned the response or the error args.
CallDoRequest ==
    /\ op = "doRequest"
    /\ out = Pending
    /\ out' = Returned(doRequestFinish(args))
    /\ UNCHANGED <<client, calls, op, args>>

\* c.requestJSON(...) on the default client (maxRetries = 0) when the
\* response (or the network's error) to its request is args.
CallRequestJSON ==
    /\ op = "requestJSON"
    /\ out = Pending
    /\ client.http.maxRetries = 0
    /\ out' = Returned(requestJSON(doWithRetrySingle(client.http, args)))
    /\ UNCHANGED <<client, calls, op, args>>

NextResponse == CallDoRequest \/ CallRequestJSON

SpecResponse == InitResponse /\ [][NextResponse]_vars


(***************************************************************************)
(* Two goroutines calling one transport: each has its own frame of         *)
(* doWithRetry, the steps of the two interleave in every order.            *)
(***************************************************************************)
Callers == {1, 2}

\* The retry limit of the transport in the specifications of more than one
\* call or of the operations built on a call.
MaxRetriesSmall == 1

InitConcurrent ==
    /\ \E mr \in -1..MaxRetriesSmall :
          client = New("rs_live_key",
                       [ZeroConfig EXCEPT !.maxRetries = mr, !.retryDelay = 1]).client
    /\ calls = [id \in Callers |-> IdleFrame]
    /\ op = "none"
    /\ args = Nil
    /\ out = Pending

NextConcurrent ==
    \/ \E id \in Callers : Call(id)
    \/ \E id \in Callers : SendRequest(id)
    \/ \E id \in Callers : ReceiveResponse(id)
    \/ \E id \in Callers : Wake(id)
    \/ \E id \in Callers : LoopExit(id)
    \/ \E id \in Callers : Return(id)

SpecConcurrent == InitConcurrent /\ [][NextConcurrent]_vars


(***************************************************************************)
(* Client.Cache() called from two goroutines. The method reads c.cache,    *)
(* may write it, and reads it again to return it, with no lock: the three  *)
(* memory accesses of one call interleave with those of the other.         *)
(***************************************************************************)
\* The calls of Cache() one goroutine makes.
MaxCacheCalls == 2

\* NewCacheManager(http): the pointer to a new CacheManager; addr tells apart
\* the instances (the goroutine and the call that allocated it).
NewCacheManager(http, addr) == [http |-> http, addr |-> addr]

\* A goroutine outside Cache(): n calls made, got what they returned.
CacheIdleFrame == [pc |-> "idle", n |-> 0, mine |-> Nil, got |-> <<>>]

InitCache ==
    /\ client = New("rs_live_key", ZeroConfig).client
    /\ calls = [id \in Callers |-> CacheIdleFrame]
    /\ op = "Cache"
    /\ args = Nil
    /\ out = Pending

\* A goroutine calls c.Cache().
CacheEnter(id) ==
    /\ calls[id].pc = "idle"
    /\ calls[id].n < MaxCacheCalls
    /\ calls' = [calls EXCEPT ![id] = [@ EXCEPT !.pc = "test", !.mine = Nil]]
    /\ UNCHANGED <<client, op, args, out>>

\* if c.cache == nil
CacheTest(id) ==
    /\ calls[id].pc = "test"
    /\ calls' = [calls EXCEPT ![id] =
                    [@ EXCEPT !.pc = IF client.cache = Nil THEN "store" ELSE "return"]]
    /\ UNCHANGED <<client, op, args, out>>

\* c.cache = NewCacheManager(c.http)
CacheStore(id) ==
    LET made == NewCacheManager(client.http, <<id, calls[id].n>>)
    IN  /\ calls[id].pc = "store"
        /\ client' = [client EXCEPT !.cache = made]
        /\ calls' = [calls EXCEPT ![id] = [@ EXCEPT !.pc = "return", !.mine = made]]
        /\ UNCHANGED <<op, args, out>>

\* return c.cache: the field as it is now or, the accesses being unordered
\* with the other goroutine's write, the value this call stored itself.
CacheReturn(id) ==
    LET f == calls[id]
    IN  /\ f.pc = "return"
        /\ \E got \in {client.cache} \cup (IF f.mine = Nil THEN {} ELSE {f.mine}) :
              calls' = [calls EXCEPT ![id] =
                           [f EXCEPT !.pc = "idle", !.n = @ + 1,
                                     !.got = Append(@, got)]]
        /\ UNCHANGED <<client, op, args, out>>

NextCache ==
    \/ \E id \in Callers : CacheEnter(id)
    \/ \E id \in Callers : CacheTest(id)
    \/ \E id \in Callers : CacheStore(id)
    \/ \E id \in Callers : CacheReturn(id)

SpecCache == InitCache /\ [][NextCache]_vars


(***************************************************************************)
(* CacheManager.Get and CacheManager.Delete: one call of the transport     *)
(* (getBinary, delete) and the translation of what it returned.            *)
(***************************************************************************)
\* requestBinary from the return of doWithRetry (ret) on.
requestBinary(ret) ==
    IF ret.err # Nil THEN [resp |-> Nil, err |-> ret.err]
    ELSE [resp |-> [Body |-> ret.body, Headers |-> ret.headers], err |-> Nil]

\* (cm *CacheManager).Get from the return of the transport on.
CacheManagerGet(ret) ==
    LET r == requestBinary(ret)
    IN  IF r.err # Nil
        THEN IF IsNotFound(r.err) THEN [data |-> Nil, err |-> Nil]
             ELSE [data |-> Nil, err |-> r.err]
        ELSE [data |-> r.resp.Body, err |-> Nil]

\* (cm *CacheManager).Delete from the return of the transport on.
CacheManagerDelete(ret) ==
    LET r == requestJSON(ret)
    IN  IF r.err # Nil
        THEN IF IsNotFound(r.err) THEN [deleted |-> FALSE, err |-> Nil]
             ELSE [deleted |-> FALSE, err |-> r.err]
        ELSE [deleted |-> TRUE, err |-> Nil]

\* What the cache endpoint and the network may answer.
CacheOutcomes ==
    { HttpOutcome(200, <<>>, "", TextBody("PNG")),
      HttpOutcome(200, <<>>, "", EmptyBody),
      HttpOutcome(200, <<>>, "", ObjectBody([k \in {"deleted"} |-> JStr("true")])),
      HttpOutcome(404, <<>>, "", EmptyBody),
      HttpOutcome(404, <<>>, "req_1", ErrorBody(CodeNotFound)),
      HttpOutcome(404, <<>>, "", ErrorBody(CodeRenderFailed)),
      HttpOutcome(410, <<>>, "", ErrorBody(CodeNotFound)),
      HttpOutcome(401, <<>>, "", ErrorBody(CodeUnauthorized)),
      HttpOutcome(500, <<>>, "", EmptyBody),
      NetErrOutcome(<<"dial tcp", "connection refused">>) }

InitCacheOps ==
    /\ \E mr \in -1..MaxRetriesSmall :
          client = New("rs_live_key",
                       [ZeroConfig EXCEPT !.maxRetries = mr, !.retryDelay = 1]).client
    /\ calls = [id \in {1} |-> IdleFrame]
    /\ op \in {"CacheManager.Get", "CacheManager.Delete"}
    /\ args \in {"key123", "nonexistent"}
    /\ out = Pending

\* Get and Delete enter the transport: "/v1/cache/" + key, no body; a key
\* may make a URL that http.NewRequest rejects.
CacheTransportCall(id) ==
    /\ calls[id].pc = "idle"
    /\ out = Pending
    /\ \E req \in {r \in Requests : r.body = "nil"} :
          calls' = [calls EXCEPT ![id] = [IdleFrame EXCEPT !.pc = "loop", !.req = req]]
    /\ UNCHANGED <<client, op, args, out>>

CacheReceiveResponse(id) == ReceiveResponseOf(id, CacheOutcomes)

\* The transport has returned to Get, which returns to its caller.
CacheGetReturn(id) ==
    /\ op = "CacheManager.Get"
    /\ out = Pending
    /\ calls[id].pc = "done"
    /\ out' = Returned(CacheManagerGet(calls[id].ret))
    /\ UNCHANGED <<client, calls, op, args>>

\* The transport has returned to Delete, which returns to its caller.
CacheDeleteReturn(id) ==
    /\ op = "CacheManager.Delete"
    /\ out = Pending
    /\ calls[id].pc = "done"
    /\ out' = Returned(CacheManagerDelete(calls[id].ret))
    /\ UNCHANGED <<client, calls, op, args>>

NextCacheOps ==
    \/ \E id \in {1} : CacheTransportCall(id)
    \/ \E id \in {1} : SendRequest(id)
    \/ \E id \in {1} : CacheReceiveResponse(id)
    \/ \E id \in {1} : Wake(id)
    \/ \E id \in {1} : LoopExit(id)
    \/ \E id \in {1} : CacheGetReturn(id)
    \/ \E id \in {1} : CacheDeleteReturn(id)

SpecCacheOps == InitCacheOps /\ [][NextCacheOps]_vars



(***************************************************************************)
(* Calls answered with client errors: every status of 400, 401, 403 and    *)
(* 404 with a body that names no code, the code of the status, a code of   *)
(* the retryable set or another code; a 200 ends a call with a success.    *)
(***************************************************************************)
ClientErrorStatuses == {400, 401, 403, 404}

\* The codes a body may supply ("": an empty body, no code supplied).
SuppliedCodes ==
    {"", CodeInvalidRequest, CodeUnauthorized, CodeForbidden, CodeNotFound,
     CodeRateLimited, CodeTimeout, CodeRenderFailed, CodeInternalError,
     CodeConnectionError}

ClientErrorOutcomes ==
    { HttpOutcome(st, <<>>, "", IF code = "" THEN EmptyBody ELSE ErrorBody(code)) :
          st \in ClientErrorStatuses, code \in SuppliedCodes }
    \cup { HttpOutcome(200, <<>>, "", ObjectBody([k \in {"status"} |-> JStr("ok")])) }

InitClientErrors ==
    /\ \E mr \in -1..MaxRetriesSmall :
          client = New("rs_live_key",
                       [ZeroConfig EXCEPT !.maxRetries = mr, !.retryDelay = 1]).client
    /\ calls = [id \in {1} |-> IdleFrame]
    /\ op = "none"
    /\ args = Nil
    /\ out = Pending

ClientErrorResponse(id) == ReceiveResponseOf(id, ClientErrorOutcomes)

NextClientErrors ==
    \/ \E id \in {1} : Call(id)
    \/ \E id \in {1} : SendRequest(id)
    \/ \E id \in {1} : ClientErrorResponse(id)
    \/ \E id \in {1} : Wake(id)
    \/ \E id \in {1} : LoopExit(id)
    \/ \E id \in {1} : Return(id)

SpecClientErrors == InitClientErrors /\ [][NextClientErrors]_vars



(***************************************************************************)
(* webhook.go: ExtractWebhookHeaders. Header names are sequences of        *)
(* characters; a header map is a function from names to values.            *)
(***************************************************************************)
\* Largest number of entries of a header map.
MaxHeaders == 3

UpperCase == <<"A", "B", "C", "D", "E", "F", "G", "H", "I", "J", "K", "L", "M",
               "N", "O", "P", "Q", "R", "S", "T", "U", "V", "W", "X", "Y", "Z">>

LowerCase == <<"a", "b", "c", "d", "e", "f", "g", "h", "i", "j", "k", "l", "m",
               "n", "o", "p", "q", "r", "s", "t", "u", "v", "w", "x", "y", "z">>

\* strings.ToLower(s)
ToLower(s) ==
    [i \in 1..Len(s) |->
        IF \E j \in 1..Len(UpperCase) : UpperCase[j] = s[i]
        THEN LowerCase[CHOOSE j \in 1..Len(UpperCase) : UpperCase[j] = s[i]]
        ELSE s[i]]

\* strings.ReplaceAll(s, "_", "-")
ReplaceUnderscores(s) == [i \in 1..Len(s) |-> IF s[i] = "_" THEN "-" ELSE s[i]]

\* SignatureHeader
SignatureHeader ==
    <<"X", "-", "W", "e", "b", "h", "o", "o", "k", "-", "S", "i", "g", "n",
      "a", "t", "u", "r", "e">>

\* TimestampHeader
TimestampHeader ==
    <<"X", "-", "W", "e", "b", "h", "o", "o", "k", "-", "T", "i", "m", "e",
      "s", "t", "a", "m", "p">>

\* IDHeader
IDHeader ==
    <<"X", "-", "W", "e", "b", "h", "o", "o", "k", "-", "I", "D">>

\* A header that is none of the three.
ContentTypeHeader ==
    <<"C", "o", "n", "t", "e", "n", "t", "-", "T", "y", "p", "e">>

\* The variant of a header name with '_' for '-', in lower case.
Underscored(s) == [i \in 1..Len(s) |-> IF s[i] = "-" THEN "_" ELSE ToLower(s)[i]]

RECURSIVE normalizeHeaders(_, _)
\* normalizeHeaders(headers); order is the order in which the range over the
\* map yields its keys. A later key overwrites an earlier one of the same
\* normalized name.
normalizeHeaders(headers, order) ==
    IF order = <<>> THEN [k \in {} |-> ""]
    ELSE LET rest == normalizeHeaders(headers, SubSeq(order, 1, Len(order) - 1))
             k == order[Len(order)]
             normalized == ToLower(ReplaceUnderscores(k))
         IN  [n \in DOMAIN rest \cup {normalized} |->
                 IF n = normalized THEN headers[k] ELSE rest[n]]

\* ExtractWebhookHeaders(headers): a missing map entry reads as "".
ExtractWebhookHeaders(headers, order) ==
    LET normalized == normalizeHeaders(headers, order)
        Get(k) == IF k \in DOMAIN normalized THEN normalized[k] ELSE ""
    IN  [Signature |-> Get(ToLower(SignatureHeader)),
         Timestamp |-> Get(ToLower(TimestampHeader)),
         ID        |-> Get(ToLower(IDHeader))]

\* The names a request may carry: the three headers in their standard,
\* lower-case and underscored variants, and another header.
HeaderKeys ==
    UNION { {h, ToLower(h), Underscored(h)} :
              h \in {SignatureHeader, TimestampHeader, IDHeader} }
    \cup {ContentTypeHeader}

HeaderValues == {"v1", "v2"}

\* The header maps of at most MaxHeaders entries.
HeaderMaps ==
    UNION { [ks -> HeaderValues] :
              ks \in {s \in SUBSET HeaderKeys : Cardinality(s) <= MaxHeaders} }

InitHeaders ==
    /\ AtRest
    /\ op = "ExtractWebhookHeaders"
    /\ args \in [headers : HeaderMaps]
    /\ out = Pending

\* ExtractWebhookHeaders(headers): the range over the map yields the keys in
\* an order the runtime chooses.
CallExtractWebhookHeaders ==
    /\ op = "ExtractWebhookHeaders"
    /\ out = Pending
    /\ \E order \in IterationOrders(DOMAIN args.headers) :
          out' = Returned(ExtractWebhookHeaders(args.headers, order))
    /\ UNCHANGED <<client, calls, op, args>>

NextHeaders == CallExtractWebhookHeaders

SpecHeaders == InitHeaders /\ [][NextHeaders]_vars



(***************************************************************************)
(* One caller on a transport whose goroutine keeps running: the loop       *)
(* condition is evaluated and the next request sent (SendRequest,          *)
(* LoopExit), every request returns, with a response or with an error, at  *)
(* the latest when the timeout of the http.Client expires (ReceiveResponse)*)
(* and time.Sleep returns when the delay has elapsed (Wake). The caller is *)
(* not obliged to call or to pick up its result.                           *)
(***************************************************************************)
InitTermination ==
    /\ \E mr \in -1..MaxRetries :
          client = New("rs_live_key",
                       [ZeroConfig EXCEPT !.maxRetries = mr, !.retryDelay = 1]).client
    /\ calls = [id \in {1} |-> IdleFrame]
    /\ op = "none"
    /\ args = Nil
    /\ out = Pending

Progress ==
    \A id \in {1} :
        /\ WF_vars(SendRequest(id))
        /\ WF_vars(ReceiveResponse(id))
        /\ WF_vars(Wake(id))
        /\ WF_vars(LoopExit(id))

SpecTermination == InitTermination /\ [][Next]_vars /\ Progress


(***************************************************************************)
(* What a frame has seen, for the properties.                              *)
(***************************************************************************)
\* The runs of doRequest that have returned.
Completed(f) == IF f.pc = "inflight" THEN f.attempts - 1 ELSE f.attempts

\* The requests the call has put on the wire.
Issued(f) == Len(f.outcomes) + (IF f.pc = "inflight" THEN 1 ELSE 0)

\* The error the i-th run of doRequest returned (Nil: it succeeded).
AttemptErr(f, i) ==
    IF doRequestBuild(f.req) # Nil THEN doRequestBuild(f.req)
    ELSE doRequestFinish(f.outcomes[i]).err

RetryableFailure(f, i) == AttemptErr(f, i) # Nil /\ IsRetryable(AttemptErr(f, i))

Started(f) == f.pc # "idle"

(***************************************************************************)
(* C1. With max_retries = N, when the first k <= N requests of a call are  *)
(* answered with retryable errors the call goes on to the next request,    *)
(* and when that one is answered with a success the call has issued        *)
(* exactly k+1 requests and returns the success payload and no error.      *)
(***************************************************************************)
C1_RetryUntilSuccess ==
    \A id \in DOMAIN calls :
        LET f == calls[id]
            n == Completed(f)
        IN  (Started(f) /\ doRequestBuild(f.req) = Nil) =>
              /\ (n >= 1 /\ n <= client.http.maxRetries
                    /\ \A i \in 1..n : RetryableFailure(f, i))
                  => /\ f.pc \in {"sleep", "loop", "inflight"}
                     /\ f.pc = "loop" => f.attempt <= client.http.maxRetries
              /\ (n >= 1 /\ n - 1 <= client.http.maxRetries
                    /\ (\A i \in 1..(n - 1) : RetryableFailure(f, i))
                    /\ AttemptErr(f, n) = Nil)
                  => /\ f.pc = "done"
                     /\ Issued(f) = n
                     /\ f.attempts = n
                     /\ f.ret.err = Nil
                     /\ f.ret.body = f.outcomes[n].body

\* Two 500s then a 200 under the largest max_retries: three requests, success.
C1_Witness ==
    \E id \in DOMAIN calls :
        LET f == calls[id]
        IN  /\ client.http.maxRetries = MaxRetries
            /\ f.pc = "done"
            /\ Len(f.outcomes) = 3
            /\ f.outcomes[1].kind = "http" /\ f.outcomes[1].status = 500
            /\ f.outcomes[2].kind = "http" /\ f.outcomes[2].status = 500
            /\ f.outcomes[3].kind = "http" /\ f.outcomes[3].status = 200
            /\ f.ret.err = Nil
            /\ f.ret.body = f.outcomes[3].body

(***************************************************************************)
(* C2. For max_retries >= 0, an attempt that fails with an error that is   *)
(* not retryable is the call's last: the call returns that error at once,  *)
(* issues no further request and sleeps no delay after it; when it is the  *)
(* first attempt the call has made exactly one attempt.                    *)
(***************************************************************************)
C2_NoRetryOnNonRetryable ==
    \A id \in DOMAIN calls :
        LET f == calls[id]
        IN  (Started(f) /\ client.http.maxRetries >= 0) =>
              \A i \in 1..Completed(f) :
                  (AttemptErr(f, i) # Nil /\ ~IsRetryable(AttemptErr(f, i)))
                  => /\ f.pc = "done"
                     /\ f.attempts = i
                     /\ Issued(f) <= i
                     /\ Len(f.slept) = i - 1
                     /\ f.delay = 0
                     /\ f.ret = Result(Nil, Nil, AttemptErr(f, i))

\* A 401 on the first attempt under the largest max_retries: one attempt.
C2_Witness ==
    \E id \in DOMAIN calls :
        LET f == calls[id]
        IN  /\ client.http.maxRetries = MaxRetries
            /\ f.pc = "done"
            /\ f.attempts = 1
            /\ Len(f.outcomes) = 1
            /\ f.outcomes[1].kind = "http" /\ f.outcomes[1].status = 401
            /\ f.ret.err # Nil
            /\ f.ret.err.Code = CodeUnauthorized
            /\ f.slept = <<>>

(***************************************************************************)
(* C3. With max_retries = N >= 0, a call all of whose attempts failed with *)
(* retryable errors has made exactly N+1 attempts (N+1 requests on the     *)
(* wire when the request could be built) and returns the error of the      *)
(* last attempt.                                                           *)
(***************************************************************************)
C3_ExhaustionReturnsLastError ==
    \A id \in DOMAIN calls :
        LET f == calls[id]
            N == client.http.maxRetries
        IN  (f.pc = "done" /\ N >= 0
               /\ \A i \in 1..Completed(f) : RetryableFailure(f, i))
            => /\ f.attempts = N + 1
               /\ doRequestBuild(f.req) = Nil => Issued(f) = N + 1
               /\ Len(f.slept) = N
               /\ f.ret = Result(Nil, Nil, AttemptErr(f, N + 1))
               /\ f.ret.err # Nil

\* Every attempt fails, the last with a timeout after a 429 and a 500.
C3_Witness ==
    \E id \in DOMAIN calls :
        LET f == calls[id]
        IN  /\ client.http.maxRetries = MaxRetries
            /\ client.http.maxRetries >= 2
            /\ f.pc = "done"
            /\ Len(f.outcomes) = client.http.maxRetries + 1
            /\ f.outcomes[1].kind = "http" /\ f.outcomes[1].status = 429
            /\ f.outcomes[2].kind = "http" /\ f.outcomes[2].status = 500
            /\ f.outcomes[Len(f.outcomes)].kind = "neterr"
            /\ \A i \in 1..Len(f.outcomes) : RetryableFailure(f, i)
            /\ f.ret.err # Nil
            /\ f.ret.err.Code = CodeTimeout

(***************************************************************************)
(* C10. When the error of a failed attempt carries retry_after > 0, the    *)
(* delay slept before the next attempt is exactly retry_after seconds,     *)
(* whatever the attempt index and the base delay.                          *)
(***************************************************************************)
C10_RetryAfterVerbatim ==
    \A id \in DOMAIN calls :
        LET f == calls[id]
        IN  /\ \A i \in 1..Len(f.slept) :
                  AttemptErr(f, i).RetryAfter > 0
                  => f.slept[i] = AttemptErr(f, i).RetryAfter * TicksPerSecond
            /\ (f.pc = "sleep" /\ f.lastErr.RetryAfter > 0)
                  => f.delay = f.lastErr.RetryAfter * TicksPerSecond

\* A 429 with Retry-After: 60 on the second attempt: 60 s slept, above the
\* ceiling of the backoff branch, after 2 s slept for a 503 with Retry-After: 2.
C10_Witness ==
    \E id \in DOMAIN calls :
        LET f == calls[id]
        IN  /\ Len(f.slept) = 2
            /\ AttemptErr(f, 1).RetryAfter = 2
            /\ AttemptErr(f, 2).RetryAfter = 60
            /\ f.slept = <<2 * TicksPerSecond, 60 * TicksPerSecond>>
            /\ client.http.retryDelay = 8 * TicksPerSecond

(***************************************************************************)
(* C4. Error.IsRetryable() is true exactly when the code is one of         *)
(* rate_limited, timeout, render_failed, internal_error, connection_error  *)
(* or the status is in 500..599; IsRetryable(err) agrees with it on typed  *)
(* errors and is false for every other error value.                        *)
(***************************************************************************)
C4_RetryableExactly ==
    /\ (op = "Error.IsRetryable" /\ out # Pending)
          => out.v = (\/ args.Code \in {"rate_limited", "timeout", "render_failed",
                                      "internal_error", "connection_error"}
                    \/ args.HTTPStatus \in 500..599)
    /\ (op = "IsRetryable" /\ out # Pending)
          => out.v = (/\ IsTypedError(args)
                    /\ (\/ args.Code \in {"rate_limited", "timeout", "render_failed",
                                          "internal_error", "connection_error"}
                        \/ args.HTTPStatus \in 500..599))

\* A 503 whose code is not in the retryable set is retryable by its status.
C4_Witness ==
    /\ op = "IsRetryable"
    /\ IsTypedError(args)
    /\ args.Code = "forbidden"
    /\ args.HTTPStatus = 503
    /\ out = Returned(TRUE)

\* |now - ts| > T seconds, T the tolerance of tol ticks.
OutsideTolerance(now, ts, tol) ==
    (IF now >= ts THEN now - ts ELSE ts - now) * TicksPerSecond > tol

(***************************************************************************)
(* C5. For every timestamp that parses as a signed 64-bit integer ts and   *)
(* every tolerance T > 0, VerifyWebhook returns false when                 *)
(* |now - ts| > T seconds, also when the signature is the right one.       *)
(***************************************************************************)
C5_OutsideToleranceRejected ==
    (/\ op = "VerifyWebhook"
     /\ out # Pending
     /\ ParseInt(args.timestamp, WordBits).ok
     /\ args.tolerance > 0
     /\ OutsideTolerance(args.now, ParseInt(args.timestamp, WordBits).n,
                         args.tolerance))
    => out.v.ok = FALSE

(***************************************************************************)
(* C6. When payload, signature, timestamp and secret are non-empty and the *)
(* timestamp is an integer with |now - ts| <= T, VerifyWebhook returns     *)
(* true exactly when the signature equals                                  *)
(* "sha256=" + hex(HMAC-SHA256(secret, timestamp + "." + payload)).        *)
(***************************************************************************)
C6_ValidSignatureExactly ==
    (/\ op = "VerifyWebhook"
     /\ out # Pending
     /\ args.payload # <<>> /\ args.signature # <<>>
     /\ args.timestamp # <<>> /\ args.secret # <<>>
     /\ ParseInt(args.timestamp, WordBits).ok
     /\ ~OutsideTolerance(args.now, ParseInt(args.timestamp, WordBits).n,
                          args.tolerance))
    => out.v.ok = (args.signature
                   = ExpectedSignature(args.payload, args.timestamp, args.secret))

\* A delivery as old as the tolerance allows (3 s with a tolerance of 3 s),
\* rightly signed, is accepted.
C6_Witness ==
    /\ op = "VerifyWebhook"
    /\ args.tolerance = 3 * TicksPerSecond
    /\ ParseInt(args.timestamp, WordBits).ok
    /\ args.now - ParseInt(args.timestamp, WordBits).n = 3
    /\ args.signature = ExpectedSignature(args.payload, args.timestamp, args.secret)
    /\ args.payload # <<>> /\ args.secret # <<>>
    /\ out # Pending
    /\ out.v.ok = TRUE

(***************************************************************************)
(* C7. VerifyWebhook returns false, before it parses the timestamp or      *)
(* computes an HMAC, whenever payload, signature, timestamp or secret is   *)
(* the empty string.                                                       *)
(***************************************************************************)
C7_EmptyArgumentRejected ==
    (/\ op = "VerifyWebhook"
     /\ out # Pending
     /\ (args.payload = <<>> \/ args.signature = <<>>
           \/ args.timestamp = <<>> \/ args.secret = <<>>))
    => /\ out.v.ok = FALSE
       /\ out.v.steps = <<>>

\* An empty payload with the signature that is right for it, in tolerance.
C7_Witness ==
    /\ op = "VerifyWebhook"
    /\ args.payload = <<>>
    /\ args.secret # <<>>
    /\ args.timestamp = Itoa(args.now)
    /\ args.signature = ExpectedSignature(<<>>, args.timestamp, args.secret)
    /\ out # Pending
    /\ out.v.ok = FALSE

\* The parameter set a call of GenerateURL signs.
ParamsOf(c, a) ==
    SignParams(a.options, a.expiresAt, Effective(a.publicKeyID, c.publicKeyID))

\* Two parameter sets with the same keys that differ in the value of one key.
DifferInOneValue(p, q) ==
    /\ DOMAIN p = DOMAIN q
    /\ Cardinality({k \in DOMAIN p : p[k] # q[k]}) = 1

(***************************************************************************)
(* C8. The canonical string and the signature of GenerateURL depend on the *)
(* parameter set only: every order in which the map yields its keys gives  *)
(* the URL the call returned, and a parameter set that differs from the    *)
(* call's in the value of a single key has another canonical string and,   *)
(* under the same secret, another signature.                               *)
(***************************************************************************)
C8_SigningCanonical ==
    (op = "GenerateURL" /\ out # Pending /\ out.v.err = Nil)
    => LET params == ParamsOf(client, args)
           secret == Effective(args.signingKey, client.signingKey)
       IN  /\ \A order \in IterationOrders(DOMAIN params) :
                  GenerateURL(client, args.options, args.expiresAt, args.signingKey,
                              args.publicKeyID, order) = out.v
           /\ \A o \in OptionChoices, e \in ExpiryTimes, id \in PublicKeyIDs \ {<<>>} :
                  LET other == SignParams(o, e, id)
                  IN  DifferInOneValue(params, other)
                      => LET q == QueryString(other, SomeOrder(DOMAIN other))
                         IN  /\ q # QueryString(params, args.order)
                             /\ HexEncode(HmacSha256(secret, q)) # out.v.url.signature

\* Four parameters, yielded by the map in an order that is not the sorted one.
C8_Witness ==
    /\ op = "GenerateURL"
    /\ out # Pending
    /\ out.v.err = Nil
    /\ Len(args.order) = 4
    /\ args.order # SortStrings(args.order)
    /\ args.options.width = 800
    /\ \E o \in OptionChoices :
          /\ o.width = 801
          /\ DifferInOneValue(ParamsOf(client, args),
                              ParamsOf(client, [args EXCEPT !.options = o]))

(***************************************************************************)
(* C9. GenerateURL returns an error, of code invalid_request and not       *)
(* retryable, and no URL exactly when the effective signing key or the     *)
(* effective key id is empty, the effective value being the argument when  *)
(* it is non-empty and the client's default otherwise; in every other case *)
(* it returns a URL and no error.                                          *)
(***************************************************************************)
C9_CredentialsRequired ==
    (op = "GenerateURL" /\ out # Pending)
    => LET noSecret == (IF args.signingKey # <<>> THEN args.signingKey
                        ELSE client.signingKey) = <<>>
           noKeyID == (IF args.publicKeyID # <<>> THEN args.publicKeyID
                       ELSE client.publicKeyID) = <<>>
       IN  IF noSecret \/ noKeyID
           THEN /\ out.v.err # Nil
                /\ out.v.err.Code = "invalid_request"
                /\ ~IsRetryable(out.v.err)
                /\ out.v.url = NoURL
           ELSE /\ out.v.err = Nil
                /\ out.v.url.text # <<>>
                /\ out.v.url.signature # <<>>

\* The key comes from the client and the key id from the argument: signed.
C9_Witness ==
    /\ op = "GenerateURL"
    /\ out # Pending
    /\ args.signingKey = <<>> /\ client.signingKey # <<>>
    /\ args.publicKeyID # <<>> /\ client.publicKeyID = <<>>
    /\ out.v.err = Nil
    /\ out.v.url.signature # <<>>
\* x lies between a and b, whichever of the two is the smaller.
Between(x, a, b) == (a <= x /\ x <= b) \/ (b <= x /\ x <= a)

Min(a, b) == IF a <= b THEN a ELSE b

(***************************************************************************)
(* C11. When the error has no positive retry_after, the delay computed     *)
(* for attempt index a lies between min(base * 2^a, 30 s) and              *)
(* min(base * 2^a + base / 2, 30 s): it never exceeds the 30 s ceiling,    *)
(* and below the ceiling it is off base * 2^a by less than half the base   *)
(* delay. (Halves are avoided by doubling both sides.)                     *)
(***************************************************************************)
C11_BackoffBounds ==
    (op = "calculateDelay" /\ out # Pending /\ args.err.RetryAfter <= 0)
    => LET base == client.http.retryDelay
           grown == base * (2 ^ args.attempt)
           ceiling == MaxRetryDelaySeconds * TicksPerSecond
       IN  /\ Between(2 * out.v, 2 * Min(grown, ceiling),
                      Min(2 * grown + base, 2 * ceiling))
           /\ out.v <= ceiling
           /\ base > 0 => out.v >= Min(grown, ceiling)
           /\ out.v < ceiling =>
                 /\ 2 * (out.v - grown) < (IF base > 0 THEN base ELSE -base)
                 /\ 2 * (grown - out.v) < (IF base > 0 THEN base ELSE -base)

\* Base 1.0 s, attempt 1, a jitter of one tick: a delay inside (2.0, 2.5) s.
C11_Witness ==
    /\ op = "calculateDelay" /\ out # Pending
    /\ client.http.retryDelay = DefaultRetryDelaySeconds * TicksPerSecond
    /\ args.err.RetryAfter = 0
    /\ args.attempt = 1
    /\ out.v = 2 * TicksPerSecond + 1

(***************************************************************************)
(* C12. The retry_after of every error built from an HTTP response is a    *)
(* non-negative integer: a Retry-After header holding a decimal integer n  *)
(* yields n, an empty or non-numeric header yields 0.                      *)
(***************************************************************************)
C12_RetryAfterNonNegative ==
    (op = "doRequest" /\ out # Pending /\ args.kind = "http" /\ out.v.err # Nil)
    => /\ out.v.err.RetryAfter >= 0
       /\ ParseInt(args.retryAfter, WordBits).ok
             => out.v.err.RetryAfter = ParseInt(args.retryAfter, WordBits).n
       /\ ~ParseInt(args.retryAfter, WordBits).ok => out.v.err.RetryAfter = 0


\* The response body carries no error.code string.
NoBodyCode(body) ==
    LET m == jsonUnmarshalMap(body).v
    IN  ~("error" \in DOMAIN m /\ m["error"].t = "obj" /\ HasString(m["error"].v, "code"))

(***************************************************************************)
(* C13 as stated. For every HTTP status >= 400 and an empty response body  *)
(* the error's code is non-empty and is the one the status table gives     *)
(* (400 and 422 invalid_request, 401 unauthorized, 403 forbidden, 404      *)
(* not_found, 408 timeout, 429 rate_limited, 500 and above                 *)
(* internal_error): the code of an error built from an HTTP response is    *)
(* always set.                                                             *)
(***************************************************************************)
C13_CodeAlwaysSet ==
    (op = "doRequest" /\ out # Pending /\ args.kind = "http" /\ args.status >= 400
        /\ args.body = EmptyBody)
    => LET st == args.status
           code == out.v.err.Code
       IN  /\ code # ""
           /\ st \in {400, 422} => code = "invalid_request"
           /\ st = 401 => code = "unauthorized"
           /\ st = 403 => code = "forbidden"
           /\ st = 404 => code = "not_found"
           /\ st = 408 => code = "timeout"
           /\ st = 429 => code = "rate_limited"
           /\ st >= 500 => code = "internal_error"

(***************************************************************************)
(* C13 as amended. For every HTTP status >= 400 and a body that names no   *)
(* code (an empty body among them) the error's code is the one the status  *)
(* table gives: 400 and 422 invalid_request, 401 unauthorized, 403         *)
(* forbidden, 404 not_found, 408 timeout, 429 rate_limited, 500 and above  *)
(* internal_error; for any other status the code is empty.                 *)
(***************************************************************************)
C13_StatusTable ==
    (op = "doRequest" /\ out # Pending /\ args.kind = "http" /\ args.status >= 400
        /\ NoBodyCode(args.body))
    => LET st == args.status
           code == out.v.err.Code
       IN  /\ out.v.err # Nil
           /\ out.v.err.HTTPStatus = st
           /\ st \in {400, 422} => code = "invalid_request"
           /\ st = 401 => code = "unauthorized"
           /\ st = 403 => code = "forbidden"
           /\ st = 404 => code = "not_found"
           /\ st = 408 => code = "timeout"
           /\ st = 429 => code = "rate_limited"
           /\ st >= 500 => code = "internal_error"
           /\ (st < 500 /\ st \notin {400, 401, 403, 404, 408, 422, 429}) => code = ""

\* A 422 with an empty body: invalid_request.
C13_Witness ==
    /\ op = "doRequest" /\ out # Pending
    /\ args.kind = "http"
    /\ args.status = 422
    /\ args.body = EmptyBody
    /\ out.v.err.Code = CodeInvalidRequest


(***************************************************************************)
(* C14. The client of the default configuration has max_retries = 0: a     *)
(* call on it runs doRequest once and never sleeps, also when the error is *)
(* retryable, and returns the classified error of that one attempt as it   *)
(* is; a 429 with Retry-After: 60 returns code rate_limited, retry_after   *)
(* 60 and http_status 429.                                                 *)
(***************************************************************************)
C14_DefaultNoRetry ==
    client = New("rs_live_key", ZeroConfig).client
    => /\ client.http.maxRetries = 0
       /\ \A id \in DOMAIN calls :
             LET f == calls[id]
             IN  /\ f.attempts <= 1 /\ Issued(f) <= 1
                 /\ f.pc # "sleep" /\ f.slept = <<>>
                 /\ (f.pc = "done" /\ f.ret.err # Nil)
                       => /\ f.attempts = 1
                          /\ doRequestBuild(f.req) = Nil => Issued(f) = 1
                          /\ f.ret.err = AttemptErr(f, 1)
                          /\ f.ret.body = Nil
                 /\ (f.pc = "done" /\ f.outcomes # <<>>
                        /\ f.outcomes[1].kind = "http" /\ f.outcomes[1].status = 429
                        /\ f.outcomes[1].retryAfter = <<"6", "0">>)
                       => /\ f.ret.err.Code = "rate_limited"
                          /\ f.ret.err.RetryAfter = 60
                          /\ f.ret.err.HTTPStatus = 429

\* The default client has been answered 429 with Retry-After: 60 and has
\* returned the rate_limited error after its one request.
C14_Witness ==
    /\ client = New("rs_live_key", ZeroConfig).client
    /\ \E id \in DOMAIN calls :
          LET f == calls[id]
          IN  /\ f.pc = "done"
              /\ f.outcomes = <<HttpOutcome(429, <<"6", "0">>, "req_1", EmptyBody)>>
              /\ f.ret.err.Code = CodeRateLimited
              /\ f.ret.err.RetryAfter = 60
              /\ IsRetryable(f.ret.err)


(***************************************************************************)
(* C15. A network-level failure of an attempt is classified as code        *)
(* timeout with http_status 408 when it is a timeout or deadline           *)
(* condition and as code connection_error with http_status 0 otherwise;    *)
(* both verdicts are retryable.                                            *)
(***************************************************************************)
C15_NetworkFailureClassified ==
    (op = "doRequest" /\ out # Pending /\ args.kind = "neterr")
    => /\ out.v.err # Nil
       /\ IsRetryable(out.v.err)
       /\ args.cause \in TimeoutCauses
             => (out.v.err.Code = "timeout" /\ out.v.err.HTTPStatus = 408)
       /\ args.cause \notin TimeoutCauses
             => (out.v.err.Code = "connection_error" /\ out.v.err.HTTPStatus = 0)


(***************************************************************************)
(* C16 as stated. The body of a response never turns a success into a      *)
(* failure or a failure into a success. A response with status < 400       *)
(* yields no error from a JSON call: an empty body gives the empty         *)
(* mapping, and a body that is not a JSON object gives a mapping whose     *)
(* field "body" holds the raw body. A response with status >= 400 whose    *)
(* body does not parse yields a typed error built from the status alone.   *)
(***************************************************************************)
C16_FallbackForEveryNonObject ==
    (op = "requestJSON" /\ out # Pending /\ args.kind = "http")
    => /\ args.status < 400
             => /\ out.v.err = Nil
                /\ args.body.kind = "empty" => out.v.result = EmptyMap
                /\ args.body.kind \notin {"empty", "object"}
                      => /\ "body" \in DOMAIN out.v.result
                         /\ args.body.kind = "text"
                               => out.v.result["body"] = JStr(args.body.raw)
       /\ args.status >= 400
             => /\ out.v.err # Nil
                /\ IsTypedError(out.v.err)
                /\ out.v.err.HTTPStatus = args.status

(***************************************************************************)
(* C16 as amended. The body of a response never turns a success into a     *)
(* failure or a failure into a success. A response with status < 400       *)
(* yields no error from a JSON call: an empty body gives the empty         *)
(* mapping, a body that json.Unmarshal rejects gives the mapping           *)
(* {"body": raw body}, a JSON object gives that object, and the JSON null, *)
(* which json.Unmarshal accepts, gives the nil mapping with no field. A    *)
(* response with status >= 400 yields a typed error of that status         *)
(* whatever the body, and when the body is no JSON object the error is the *)
(* one the status alone gives.                                             *)
(***************************************************************************)
C16_BodyNeverFlipsOutcome ==
    (op = "requestJSON" /\ out # Pending /\ args.kind = "http")
    => /\ args.status < 400
             => /\ out.v.err = Nil
                /\ args.body.kind = "empty" => out.v.result = EmptyMap
                /\ args.body.kind = "null" => out.v.result = Nil
                /\ args.body.kind = "text"
                      => out.v.result = [k \in {"body"} |-> JStr(args.body.raw)]
                /\ args.body.kind = "object" => out.v.result = args.body.v
       /\ args.status >= 400
             => /\ out.v.result = Nil
                /\ out.v.err # Nil
                /\ IsTypedError(out.v.err)
                /\ out.v.err.HTTPStatus = args.status
                /\ args.body.kind \in {"text", "empty", "null"}
                      => /\ out.v.err.Message = <<"HTTP %d error", args.status>>
                         /\ out.v.err.RequestID = args.requestID
                         /\ args.status = 404 => out.v.err.Code = "not_found"
                         /\ args.status >= 500 => out.v.err.Code = "internal_error"

\* A 200 whose body is the JSON null: no error and the nil mapping, without
\* the field "body".
C16_Witness ==
    /\ op = "requestJSON" /\ out # Pending
    /\ args.kind = "http"
    /\ args.status = 200
    /\ args.body = NullBody
    /\ out.v.err = Nil
    /\ out.v.result = Nil


\* The body's error.request_id, "" when there is none (or it is no string).
NestedRequestID(body) ==
    LET m == jsonUnmarshalMap(body).v
    IN  IF "error" \in DOMAIN m /\ m["error"].t = "obj"
           /\ "request_id" \in DOMAIN m["error"].v
           /\ m["error"].v["request_id"].t = "str"
        THEN m["error"].v["request_id"].v ELSE ""

\* The body's top-level request_id, "" when there is none (or it is no string).
TopRequestID(body) ==
    LET m == jsonUnmarshalMap(body).v
    IN  IF "request_id" \in DOMAIN m /\ m["request_id"].t = "str"
        THEN m["request_id"].v ELSE ""

(***************************************************************************)
(* C17. The request_id of a classified error is the request-id header      *)
(* value when that is non-empty, otherwise the body's error.request_id     *)
(* when there is one, otherwise the body's top-level request_id, otherwise *)
(* empty; a non-empty header value is never replaced by a body value.      *)
(***************************************************************************)
C17_RequestIDResolution ==
    (op = "doRequest" /\ out # Pending /\ args.kind = "http" /\ args.status >= 400)
    => LET rid == out.v.err.RequestID
       IN  /\ args.requestID # "" => rid = args.requestID
           /\ (args.requestID = "" /\ NestedRequestID(args.body) # "")
                 => rid = NestedRequestID(args.body)
           /\ (args.requestID = "" /\ NestedRequestID(args.body) = "")
                 => rid = TopRequestID(args.body)

\* No header value, a body with both ids: the nested one wins.
C17_Witness ==
    /\ op = "doRequest" /\ out # Pending
    /\ args.kind = "http" /\ args.status = 500
    /\ args.requestID = ""
    /\ NestedRequestID(args.body) = "req_nested"
    /\ TopRequestID(args.body) = "req_top"
    /\ out.v.err.RequestID = "req_nested"


RECURSIVE SoloReturn(_, _, _, _, _)
\* What doWithRetry returns to a caller that is alone on the transport c,
\* makes the request req and is answered by the responses in outcomes from
\* the i-th on, having reached attempt index attempt with lastErr.
SoloReturn(c, req, outcomes, attempt, lastErr) ==
    IF attempt > c.maxRetries THEN Result(Nil, Nil, lastErr)
    ELSE LET built == doRequestBuild(req)
             res == IF built # Nil THEN Result(Nil, Nil, built)
                    ELSE doRequestFinish(Head(outcomes))
             rest == IF built # Nil THEN outcomes ELSE Tail(outcomes)
         IN  IF res.err = Nil THEN res
             ELSE IF ~IsRetryable(res.err) \/ attempt >= c.maxRetries
             THEN Result(Nil, Nil, res.err)
             ELSE SoloReturn(c, req, rest, attempt + 1, res.err)

(***************************************************************************)
(* C18. Concurrent calls on one transport are independent: under every     *)
(* interleaving each call's attempt counter counts its own sleeps and its  *)
(* own runs of doRequest, the call issues at most max_retries + 1          *)
(* requests, and what it returns is what a call alone on the transport     *)
(* returns for the same request and the same responses.                    *)
(***************************************************************************)
C18_CallsIndependent ==
    \A id \in DOMAIN calls :
        LET f == calls[id]
        IN  /\ f.pc \in {"loop", "inflight", "sleep"}
                  => /\ f.attempt = Len(f.slept)
                     /\ f.attempts = f.attempt + (IF f.pc = "loop" THEN 0 ELSE 1)
            /\ Issued(f) <= client.http.maxRetries + 1
            /\ f.pc = "done"
                  => f.ret = SoloReturn(client.http, f.req, f.outcomes, 0, Nil)

\* One call sleeps after its first failure while the other, already on its
\* second attempt, has a request in flight.
C18_Witness ==
    /\ calls[1].pc = "sleep" /\ calls[1].attempt = 0
    /\ calls[2].pc = "inflight" /\ calls[2].attempt = 1
    /\ calls[1].outcomes # calls[2].outcomes


(***************************************************************************)
(* C19. Client.Cache() returns the same CacheManager instance on every     *)
(* call for one client, also when the calls come from several goroutines   *)
(* at once: any two instances returned are the same one.                   *)
(***************************************************************************)
C19_CacheSingleInstance ==
    \A i, j \in DOMAIN calls :
        \A a \in 1..Len(calls[i].got), b \in 1..Len(calls[j].got) :
            calls[i].got[a] = calls[j].got[b]


\* The transport's final error is a not-found error.
FinalErrorNotFound(f) ==
    /\ f.ret.err # Nil
    /\ f.ret.err.HTTPStatus = 404 \/ f.ret.err.Code = "not_found"

(***************************************************************************)
(* C20. CacheManager.Get returns (nil, no error) and CacheManager.Delete   *)
(* returns (false, no error) exactly when the transport's final error is   *)
(* a not-found error (http_status 404 or code not_found); every other      *)
(* transport error is returned unchanged, and a success returns the body   *)
(* or true.                                                                *)
(***************************************************************************)
C20_NotFoundTranslated ==
    \A id \in DOMAIN calls :
        LET f == calls[id]
        IN  (out # Pending /\ op \in {"CacheManager.Get", "CacheManager.Delete"})
            => /\ op = "CacheManager.Get"
                     => /\ (out.v.data = Nil /\ out.v.err = Nil) <=> FinalErrorNotFound(f)
                        /\ (f.ret.err # Nil /\ ~FinalErrorNotFound(f))
                              => (out.v.err = f.ret.err /\ out.v.data = Nil)
                        /\ f.ret.err = Nil => (out.v.data = f.ret.body /\ out.v.err = Nil)
               /\ op = "CacheManager.Delete"
                     => /\ (out.v.deleted = FALSE /\ out.v.err = Nil) <=> FinalErrorNotFound(f)
                        /\ (f.ret.err # Nil /\ ~FinalErrorNotFound(f))
                              => (out.v.err = f.ret.err /\ out.v.deleted = FALSE)
                        /\ f.ret.err = Nil
                              => /\ out.v.deleted = TRUE /\ out.v.err = Nil
                                 /\ Issued(f) >= 1


(***************************************************************************)
(* C22. Every call of the transport that has returned made at least one    *)
(* and at most max_retries + 1 attempts (requests on the wire never more   *)
(* than attempts), for every configured max_retries, negative ones         *)
(* included; it returned a success only when one of its own requests was   *)
(* answered with a status below 400, whose body it returns, and otherwise  *)
(* it returned a Typed API Error.                                          *)
(***************************************************************************)
C22_RequestsBoundedAndOwned ==
    \A id \in DOMAIN calls :
        LET f == calls[id]
            N == client.http.maxRetries
        IN  f.pc = "done" =>
              /\ f.attempts >= 1
              /\ f.attempts <= N + 1
              /\ Issued(f) <= f.attempts
              /\ IF f.ret.err = Nil
                 THEN \E i \in 1..Len(f.outcomes) :
                          /\ f.outcomes[i].kind = "http"
                          /\ f.outcomes[i].status < 400
                          /\ f.ret.body = f.outcomes[i].body
                 ELSE IsTypedError(f.ret.err)


(***************************************************************************)
(* C23. Attempts and delays of a call alternate strictly: the call is      *)
(* either before its next attempt (as many delays slept as attempts made), *)
(* or in an attempt or in the delay after it (one attempt more than delays *)
(* slept), so a request is in flight only when every earlier attempt has   *)
(* returned and its delay has been slept; every delay, slept or being      *)
(* slept, is the computed delay of a retryable failure of an attempt that  *)
(* was not the final one; a call that has returned slept no delay after    *)
(* its last attempt.                                                       *)
(***************************************************************************)
C23_AttemptsAndDelaysAlternate ==
    \A id \in DOMAIN calls :
        LET f == calls[id]
            c == client.http
            Computed(i, d) ==
                \E jitter \in Jitters(c.retryDelay) :
                    d = calculateDelay(c, AttemptErr(f, i), i - 1, jitter)
        IN  /\ f.attempt = Len(f.slept)
            /\ f.pc \in {"idle", "loop"} => f.attempts = Len(f.slept)
            /\ f.pc \in {"inflight", "sleep"} => f.attempts = Len(f.slept) + 1
            /\ f.pc = "inflight" => Len(f.outcomes) = Len(f.slept)
            /\ f.pc = "done" =>
                  f.attempts = (IF c.maxRetries < 0 THEN 0 ELSE Len(f.slept) + 1)
            /\ \A i \in 1..Len(f.slept) :
                  /\ RetryableFailure(f, i)
                  /\ i - 1 < c.maxRetries
                  /\ Computed(i, f.slept[i])
            /\ IF f.pc = "sleep"
               THEN /\ RetryableFailure(f, f.attempts)
                    /\ f.attempt < c.maxRetries
                    /\ Computed(f.attempts, f.delay)
               ELSE f.delay = 0

\* Two delays slept after a 500 and a network failure, none after the 401 that
\* ended the call.
C23_Witness ==
    \E id \in DOMAIN calls :
        LET f == calls[id]
        IN  /\ f.pc = "done"
            /\ client.http.retryDelay > 0
            /\ f.attempts = 3
            /\ Len(f.outcomes) = 3
            /\ f.outcomes[1].kind = "http" /\ f.outcomes[1].status = 500
            /\ f.outcomes[2].kind = "neterr"
            /\ f.outcomes[3].kind = "http" /\ f.outcomes[3].status = 401
            /\ Len(f.slept) = 2
            /\ f.slept[1] > 0 /\ f.slept[2] >= 2 * f.slept[1] - client.http.retryDelay
            /\ f.delay = 0


\* The call went on after its i-th attempt: it is in the delay after it or
\* has slept that delay.
RetriedAfter(f, i) == Len(f.slept) >= i \/ (f.attempts = i /\ f.pc = "sleep")

\* The error.code string of a response body, "" when it supplies none.
BodyCode(body) ==
    LET m == jsonUnmarshalMap(body).v
    IN  IF "error" \in DOMAIN m /\ m["error"].t = "obj"
           /\ HasString(m["error"].v, "code")
        THEN m["error"].v["code"].v ELSE ""

(***************************************************************************)
(* C24 as stated. A response with status 400, 401, 403 or 404 is never     *)
(* retried, whatever error code its body supplies: the attempt it answers  *)
(* is the call's last and no delay follows it.                             *)
(***************************************************************************)
C24_ClientErrorNeverRetried ==
    \A id \in DOMAIN calls :
        LET f == calls[id]
        IN  \A i \in 1..Len(f.outcomes) :
                f.outcomes[i].status \in {400, 401, 403, 404}
                => ~RetriedAfter(f, i)

(***************************************************************************)
(* C24 as amended. A response with status 400, 401, 403 or 404 whose body  *)
(* supplies no code, or a code outside rate_limited, timeout,              *)
(* render_failed, internal_error and connection_error, is never retried;   *)
(* when its body supplies one of these five codes the verdict follows the  *)
(* code, and the response is retried exactly when attempts remain.         *)
(***************************************************************************)
C24_ClientErrorFollowsCode ==
    \A id \in DOMAIN calls :
        LET f == calls[id]
        IN  \A i \in 1..Len(f.outcomes) :
                f.outcomes[i].status \in {400, 401, 403, 404}
                => (RetriedAfter(f, i)
                      <=> /\ BodyCode(f.outcomes[i].body) \in
                                {"rate_limited", "timeout", "render_failed",
                                 "internal_error", "connection_error"}
                          /\ i - 1 < client.http.maxRetries)

\* A 403 whose body says rate_limited is retried; the 403 with no code that
\* answers the second request ends the call with the error forbidden.
C24_Witness ==
    \E id \in DOMAIN calls :
        LET f == calls[id]
        IN  /\ f.pc = "done"
            /\ Len(f.outcomes) = 2
            /\ f.outcomes[1].status = 403
            /\ BodyCode(f.outcomes[1].body) = "rate_limited"
            /\ f.outcomes[2].status = 403
            /\ BodyCode(f.outcomes[2].body) = ""
            /\ Len(f.slept) = 1
            /\ f.ret.err.Code = CodeForbidden
            /\ f.attempts = 2


(***************************************************************************)
(* C25 as stated. The delay before a single retry is never longer than the *)
(* 30 s ceiling, whichever branch of calculateDelay computes it.           *)
(***************************************************************************)
C25_NeverAboveCeiling ==
    (op = "calculateDelay" /\ out # Pending)
    => out.v <= MaxRetryDelaySeconds * TicksPerSecond

(***************************************************************************)
(* C25 as amended. The delay of the backoff branch (no positive            *)
(* retry_after) is never longer than the 30 s ceiling; a positive          *)
(* retry_after is the delay as it is, also when it is longer than 30 s.    *)
(***************************************************************************)
C25_CeilingOnBackoffOnly ==
    (op = "calculateDelay" /\ out # Pending)
    => IF args.err.RetryAfter > 0
       THEN out.v = args.err.RetryAfter * TicksPerSecond
       ELSE out.v <= MaxRetryDelaySeconds * TicksPerSecond

\* Retry-After: 60 at 28 s of base delay and attempt 1, where the backoff
\* branch would give the ceiling: the delay is 60 s, twice the ceiling.
C25_Witness ==
    /\ op = "calculateDelay" /\ out # Pending
    /\ client.http.retryDelay = 28 * TicksPerSecond
    /\ args.attempt = 1
    /\ args.err.RetryAfter = 60
    /\ out.v = 60 * TicksPerSecond
    /\ out.v = 2 * maxRetryDelay


(***************************************************************************)
(* C26. An error raised before any network I/O (the request body cannot    *)
(* be serialized, or the request cannot be constructed) ends the call: the *)
(* attempt that raised it is the call's only one, no delay follows it and  *)
(* the call returns that error, for every max_retries.                     *)
(***************************************************************************)
C26_PreNetworkErrorNotRetried ==
    \A id \in DOMAIN calls :
        LET f == calls[id]
            pre == doRequestBuild(f.req)
        IN  (Started(f) /\ pre # Nil /\ f.attempts >= 1)
            => /\ f.pc = "done"
               /\ f.attempts = 1
               /\ f.slept = <<>>
               /\ f.delay = 0
               /\ f.ret = Result(Nil, Nil, pre)


(***************************************************************************)
(* C27. The tolerance given to VerifyWebhook is the one enforced, also     *)
(* when it is zero: a delivery is accepted only when its timestamp is      *)
(* within the given tolerance of now, so with a tolerance of 0 only when   *)
(* the timestamp is the current second.                                    *)
(***************************************************************************)
C27_GivenToleranceEnforced ==
    (op = "VerifyWebhook" /\ out # Pending /\ out.v.ok)
    => /\ ParseInt(args.timestamp, WordBits).ok
       /\ ~OutsideTolerance(args.now, ParseInt(args.timestamp, WordBits).n,
                            args.tolerance)
       /\ args.tolerance = 0 => ParseInt(args.timestamp, WordBits).n = args.now


\* The keys of a header map that normalize to the name of the header h.
VariantsOf(headers, h) ==
    {k \in DOMAIN headers : ToLower(ReplaceUnderscores(k)) = ToLower(h)}

(***************************************************************************)
(* C28. ExtractWebhookHeaders is deterministic: whatever order the range   *)
(* over the map takes, the triple is the one the call returned, also when  *)
(* several keys of the map normalize to the same header name; a header     *)
(* present under exactly one variant is returned with that variant's       *)
(* value, and a header present under none is the empty string.             *)
(***************************************************************************)
C28_ExtractDeterministic ==
    (op = "ExtractWebhookHeaders" /\ out # Pending)
    => LET h == args.headers
           One(name, v) ==
               /\ Cardinality(VariantsOf(h, name)) = 1
                     => \A k \in VariantsOf(h, name) : v = h[k]
               /\ VariantsOf(h, name) = {} => v = ""
       IN  /\ \A order \in IterationOrders(DOMAIN h) :
                  ExtractWebhookHeaders(h, order) = out.v
           /\ One(SignatureHeader, out.v.Signature)
           /\ One(TimestampHeader, out.v.Timestamp)
           /\ One(IDHeader, out.v.ID)


(***************************************************************************)
(* C29. Every call of the transport terminates: when each request returns  *)
(* (within the timeout) and each sleep ends, a call that has entered       *)
(* doWithRetry returns, for every sequence of responses and every          *)
(* max_retries.                                                            *)
(***************************************************************************)
C29_CallTerminates ==
    \A id \in {1} :
        (calls[id].pc \in {"loop", "inflight", "sleep"}) ~> (calls[id].pc = "done")

\* A call has returned after the largest number of attempts, all of which
\* failed with retryable errors, and a sleep after each but the last.
C29_Witness ==
    \E id \in DOMAIN calls :
        LET f == calls[id]
        IN  /\ client.http.maxRetries = MaxRetries
            /\ f.pc = "done"
            /\ f.attempts = MaxRetries + 1
            /\ Len(f.outcomes) = MaxRetries + 1
            /\ Len(f.slept) = MaxRetries
            /\ \A i \in 1..f.attempts : RetryableFailure(f, i)
            /\ f.ret.err # Nil


(***************************************************************************)
(* C30. No step of a transport operation changes the client's              *)
(* configuration: api key, base URL, timeout, max_retries and base retry   *)
(* delay are after the step what they were before it.                      *)
(***************************************************************************)
C30_ConfigurationUnchanged ==
    [][/\ client'.http.apiKey = client.http.apiKey
       /\ client'.http.baseURL = client.http.baseURL
       /\ client'.http.timeout = client.http.timeout
       /\ client'.http.maxRetries = client.http.maxRetries
       /\ client'.http.retryDelay = client.http.retryDelay]_vars

\* A call has made three attempts and slept twice, and the client is
\* configured as New("rs_live_key", WithMaxRetries(2), WithRetryDelay(8))
\* made it.
C30_Witness ==
    \E id \in DOMAIN calls :
        LET f == calls[id]
        IN  /\ f.pc = "done"
            /\ f.attempts = 3
            /\ Len(f.slept) = 2
            /\ client.http = newHTTPClient("rs_live_key", <<>>, 0, 2, 8 * TicksPerSecond)
            /\ client.http.timeout = defaultTimeout
            /\ client.http.baseURL = defaultBaseURL


====
